---- MODULE Spec2Model ----
(***************************************************************************)
(* Model of the auth service: the gin handlers SignUpUser and SignInUser   *)
(* of AuthController, the DeserializeUser middleware, the AuthServiceImpl  *)
(* and UserServiceImpl services over one MongoDB collection, the bcrypt    *)
(* password helpers and the token helpers, AuthController's                *)
(* RefreshAccessToken and LogoutUser, UserController.GetMe and the         *)
(* configuration file app.env that config.LoadConfig reads.                *)
(*                                                                         *)
(* gin serves every request in a goroutine of its own.  A handler is a     *)
(* sequence of steps, one for each call that reads or writes what the      *)
(* requests share: the collection, the clock, app.env and the              *)
(* package-level Viper instance.  What a handler does between two such     *)
(* calls belongs to the step of the call before.                           *)
(*                                                                         *)
(* Strings are TLA+ strings, the Authorization header is the sequence of   *)
(* its runes, and the Go string functions the handlers call                *)
(* (strings.ToLower, strings.Fields, strings.Contains) are computed        *)
(* character by character.  An ObjectID is a number 1..9 written as one    *)
(* hexadecimal digit, the zero ObjectID is 0.  Time is counted in units of *)
(* 15 minutes.                                                             *)
(***************************************************************************)
EXTENDS Integers, Sequences, FiniteSets, TLC

VARIABLES
    users,       \* the MongoDB collection: documents in natural (insertion) order
    emailIndex,  \* TRUE once the unique index on "email" exists
    reg,         \* one record per SignUpUser request: position, input, response
    now,         \* the clock read by the token helpers
    issued,      \* every token string a handler has handed to a client
    appEnv,      \* the content of the file app.env
    ctxs,        \* one gin.Context per request to a route that is no
                 \* registration: the request, the position of its handler
                 \* and the handler's local variables
    loggedOut,   \* the tokens an account held when LogoutUser answered it
    refreshed,   \* the refresh tokens RefreshAccessToken has accepted
    viper,       \* the package-level Viper instance config.LoadConfig works on
    loads        \* one record per request inside config.LoadConfig: position,
                 \* the settings viper has held since the request read
                 \* app.env, the requests it shared viper with

vars == <<users, emailIndex, reg, now, issued,
          appEnv, ctxs, loggedOut, refreshed, viper, loads>>

\* the variables registration, the store's other clients and the clock leave
\* as they are
sessionVars == <<appEnv, ctxs, loggedOut, refreshed, loads>>

----------------------------------------------------------------------------
(* Bounds of the model *)

MaxSignUps == 2
MaxTime == 2
MaxRequests == 4

----------------------------------------------------------------------------
(* Go string functions *)

UpperLetters == "ABCDEFGHIJKLMNOPQRSTUVWXYZ"
LowerLetters == "abcdefghijklmnopqrstuvwxyz"
Digits == "0123456789abcdef"

CharAt(s, i) == SubSeq(s, i, i)

\* unicode.ToLower on the letters A-Z
LowerOf ==
    [c \in {CharAt(UpperLetters, i) : i \in 1..Len(UpperLetters)} |->
        CharAt(LowerLetters,
               CHOOSE i \in 1..Len(UpperLetters) : CharAt(UpperLetters, i) = c)]

ToLowerChar(c) == IF c \in DOMAIN LowerOf THEN LowerOf[c] ELSE c

RECURSIVE ToLower(_)
ToLower(s) ==
    IF Len(s) = 0 THEN ""
    ELSE ToLowerChar(CharAt(s, 1)) \o ToLower(SubSeq(s, 2, Len(s)))

Contains(s, substr) ==
    \E i \in 1..(Len(s) - Len(substr) + 1) :
        SubSeq(s, i, i + Len(substr) - 1) = substr

\* A Go string that comes off the wire (the Authorization header) is the
\* sequence of its runes, as strings.Fields decodes it; a byte that is no
\* UTF-8 is the rune U+FFFD there.  The strings the program makes itself
\* are TLA+ strings.

\* the characters of a TLA+ string: U+0020 to U+005F and U+0061 to
\* U+007E in the order of their code points, and tab, line feed, form
\* feed and carriage return
PrintableLow == " !\"#$%&'()*+,-./0123456789:;<=>?@ABCDEFGHIJKLMNOPQRSTUVWXYZ[\\]^_"
PrintableHigh == "abcdefghijklmnopqrstuvwxyz{|}~"

\* the code point of each of them
RuneOf ==
    [c \in {CharAt(PrintableLow, i) : i \in 1..Len(PrintableLow)}
              \cup {CharAt(PrintableHigh, i) : i \in 1..Len(PrintableHigh)}
              \cup {"\t", "\n", "\f", "\r"} |->
        IF c = "\t" THEN 9
        ELSE IF c = "\n" THEN 10
        ELSE IF c = "\f" THEN 12
        ELSE IF c = "\r" THEN 13
        ELSE IF \E i \in 1..Len(PrintableLow) : CharAt(PrintableLow, i) = c
        THEN 31 + (CHOOSE i \in 1..Len(PrintableLow) :
                      CharAt(PrintableLow, i) = c)
        ELSE 96 + (CHOOSE i \in 1..Len(PrintableHigh) :
                      CharAt(PrintableHigh, i) = c)]

\* []rune(s)
Runes(s) == [i \in 1..Len(s) |-> RuneOf[CharAt(s, i)]]

\* the runes that are characters of a TLA+ string
IsChar(r) == r \in {9, 10, 12, 13} \cup 32..95 \cup 97..126

CharOf(r) ==
    IF r = 9 THEN "\t"
    ELSE IF r = 10 THEN "\n"
    ELSE IF r = 12 THEN "\f"
    ELSE IF r = 13 THEN "\r"
    ELSE IF r <= 95 THEN CharAt(PrintableLow, r - 31)
    ELSE CharAt(PrintableHigh, r - 96)

IsText(runes) == \A i \in 1..Len(runes) : IsChar(runes[i])

\* string(runes), for runes that are characters of a TLA+ string
RECURSIVE String(_)
String(runes) ==
    IF runes = << >> THEN ""
    ELSE CharOf(Head(runes)) \o String(Tail(runes))

\* unicode.IsSpace: the Latin-1 characters tab, line feed, vertical tab,
\* form feed, carriage return, space, U+0085 and U+00A0, and above U+00FF
\* the characters of the table White_Space: U+1680, U+2000 to U+200A,
\* U+2028, U+2029, U+202F, U+205F and U+3000
MaxLatin1 == 255

IsSpace(r) ==
    IF r <= MaxLatin1
    THEN r \in {9, 10, 11, 12, 13, 32, 133, 160}
    ELSE r \in {5760} \cup 8192..8202 \cup {8232, 8233, 8239, 8287, 12288}

\* strings.Fields from rune i on: cur is the field that is being read,
\* acc are the fields that were read
RECURSIVE FieldsFrom(_, _, _, _)
FieldsFrom(s, i, cur, acc) ==
    IF i > Len(s)
    THEN IF cur = << >> THEN acc ELSE Append(acc, cur)
    ELSE IF IsSpace(s[i])
         THEN FieldsFrom(s, i + 1, << >>,
                         IF cur = << >> THEN acc ELSE Append(acc, cur))
         ELSE FieldsFrom(s, i + 1, Append(cur, s[i]), acc)

\* strings.Fields(s): the maximal runs of runes of s that are no white space
Fields(s) == FieldsFrom(s, 1, << >>, << >>)

\* the value of each hexadecimal digit
ValueOf ==
    [c \in {CharAt(Digits, i) : i \in 1..Len(Digits)} |->
        (CHOOSE i \in 1..Len(Digits) : CharAt(Digits, i) = c) - 1]

IsDigit(c) == c \in DOMAIN ValueOf
DigitVal(c) == ValueOf[c]
DigitOf(n) == CharAt(Digits, n + 1)

----------------------------------------------------------------------------
(* config: the values of app.env when the process starts *)

AccessTokenPrivateKey == "access-private"
AccessTokenPublicKey == "access-public"
RefreshTokenPrivateKey == "refresh-private"
RefreshTokenPublicKey == "refresh-public"

\* ACCESS_TOKEN_EXPIRED_IN=15m and REFRESH_TOKEN_EXPIRED_IN=60m, in clock units
AccessTokenExpiredIn == 1
RefreshTokenExpiredIn == 4
\* ACCESS_TOKEN_MAXAGE and REFRESH_TOKEN_MAXAGE, in minutes
AccessTokenMaxAge == 15

\* the seconds in one unit of the clock (15m)
ClockUnitSeconds == 900
RefreshTokenMaxAge == 60

\* the Config that LoadConfig unmarshals from app.env as the repository ships it
StartupAppEnv ==
    [AccessTokenPrivateKey |-> AccessTokenPrivateKey,
     AccessTokenPublicKey |-> AccessTokenPublicKey,
     RefreshTokenPrivateKey |-> RefreshTokenPrivateKey,
     RefreshTokenPublicKey |-> RefreshTokenPublicKey,
     AccessTokenExpiredIn |-> AccessTokenExpiredIn,
     RefreshTokenExpiredIn |-> RefreshTokenExpiredIn,
     AccessTokenMaxAge |-> AccessTokenMaxAge,
     RefreshTokenMaxAge |-> RefreshTokenMaxAge]

\* app.env after an operator has put other key pairs and an access TTL of
\* 30 minutes into it
RotatedAppEnv ==
    [AccessTokenPrivateKey |-> "access-private-2",
     AccessTokenPublicKey |-> "access-public-2",
     RefreshTokenPrivateKey |-> "refresh-private-2",
     RefreshTokenPublicKey |-> "refresh-public-2",
     AccessTokenExpiredIn |-> 2,
     RefreshTokenExpiredIn |-> RefreshTokenExpiredIn,
     AccessTokenMaxAge |-> 30,
     RefreshTokenMaxAge |-> RefreshTokenMaxAge]

\* app.env after an operator has damaged the refresh private key in it
DamagedAppEnv ==
    [AccessTokenPrivateKey |-> AccessTokenPrivateKey,
     AccessTokenPublicKey |-> AccessTokenPublicKey,
     RefreshTokenPrivateKey |-> "not-a-key",
     RefreshTokenPublicKey |-> RefreshTokenPublicKey,
     AccessTokenExpiredIn |-> AccessTokenExpiredIn,
     RefreshTokenExpiredIn |-> RefreshTokenExpiredIn,
     AccessTokenMaxAge |-> AccessTokenMaxAge,
     RefreshTokenMaxAge |-> RefreshTokenMaxAge]

\* the zero value Config{}
ZeroConfig ==
    [AccessTokenPrivateKey |-> "", AccessTokenPublicKey |-> "",
     RefreshTokenPrivateKey |-> "", RefreshTokenPublicKey |-> "",
     AccessTokenExpiredIn |-> 0, RefreshTokenExpiredIn |-> 0,
     AccessTokenMaxAge |-> 0, RefreshTokenMaxAge |-> 0]

\* the name under which findConfigFile finds app.env in the search path
AppEnvFile == "app.env"

\* the Viper instance after lines 617-628 of LoadConfig have run without
\* another request in between: the search path, type and name of the
\* file, the file ReadInConfig found and the settings it read from it
ViperAfterLoadConfig(v, path, env) ==
    [configPaths |-> v.configPaths \cup {path}, configType |-> "env",
     configName |-> "app", configFile |-> AppEnvFile,
     automaticEnv |-> TRUE, config |-> env]

\* app.env is not there, or cannot be read
NoAppEnv == [missing |-> TRUE]

\* viper.SetConfigName(in): the name is set and the file that was found
\* under the name before is forgotten
SetConfigName(v, in) ==
    IF in # "" THEN [v EXCEPT !.configName = in, !.configFile = ""] ELSE v

\* findConfigFile, called by getConfigFile when the instance has no file:
\* the search path is looked through for the file of the name
FindConfigFile(file) ==
    IF file = NoAppEnv
    THEN [name |-> "", err |-> "Config File \"app\" Not Found in \"[.]\""]
    ELSE [name |-> AppEnvFile, err |-> ""]

\* afero.ReadFile(v.fs, filename) and readBufferConfig, called by
\* ReadInConfig: the settings in the file of this name
ReadFile(filename, file) ==
    IF filename = ""
    THEN [config |-> ZeroConfig, err |-> "open : no such file or directory"]
    ELSE IF file = NoAppEnv
    THEN [config |-> ZeroConfig,
          err |-> "open app.env: no such file or directory"]
    ELSE [config |-> file, err |-> ""]

\* viper.Unmarshal(&config): each key of the Config is looked up, one
\* key after the other and in no fixed order, in the settings the instance
\* holds at that moment.  seen are the settings the instance has held
\* since the ReadInConfig of the request stored what it had read; a
\* ReadInConfig of another request that stores in between makes them more
\* than one, and every key comes from one of them.
Unmarshal(seen) ==
    {[AccessTokenPrivateKey |-> k1.AccessTokenPrivateKey,
      AccessTokenPublicKey |-> k2.AccessTokenPublicKey,
      RefreshTokenPrivateKey |-> k3.RefreshTokenPrivateKey,
      RefreshTokenPublicKey |-> k4.RefreshTokenPublicKey,
      AccessTokenExpiredIn |-> k5.AccessTokenExpiredIn,
      RefreshTokenExpiredIn |-> k6.RefreshTokenExpiredIn,
      AccessTokenMaxAge |-> k7.AccessTokenMaxAge,
      RefreshTokenMaxAge |-> k8.RefreshTokenMaxAge] :
        k1 \in seen, k2 \in seen, k3 \in seen, k4 \in seen,
        k5 \in seen, k6 \in seen, k7 \in seen, k8 \in seen}

----------------------------------------------------------------------------
(* utils: bcrypt password helpers *)

\* a string that is no bcrypt hash, as a password field holds it
NotAHash(s) == [alg |-> "", text |-> s]

\* what bcrypt draws when the random source yields no salt
NoSalt == 0

\* bcrypt.GenerateFromPassword: a salted one-way digest.  The digest of
\* password under salt is the term <<salt, password>>, which nothing
\* but VerifyPassword takes apart.  Without a salt it fails, and
\* HashPassword returns "" and the wrapped error.
HashPassword(password, salt) ==
    IF salt = NoSalt
    THEN [hash |-> NotAHash(""), err |-> "could not hash password EOF"]
    ELSE [hash |-> [alg |-> "bcrypt", salt |-> salt,
                    digest |-> <<salt, password>>],
          err |-> ""]

\* bcrypt.CompareHashAndPassword: nil ("") when the candidate hashes, under
\* the salt embedded in the stored hash, to the stored digest.
VerifyPassword(hashedPassword, candidatePassword) ==
    IF hashedPassword.alg # "bcrypt"
    THEN "crypto/bcrypt: hashedSecret too short to be a bcrypted password"
    ELSE IF hashedPassword.digest = <<hashedPassword.salt, candidatePassword>>
         THEN ""
         ELSE "crypto/bcrypt: hashedPassword is not the hash of the given password"

----------------------------------------------------------------------------
(* utils: token helpers.  A token is the string k.s.i.e: k names the key    *)
(* pair whose private key signed it, s is the subject, i the time of issue *)
(* and e the time of expiry.                                               *)

KeyPairOf(key) ==
    IF key \in {AccessTokenPrivateKey, AccessTokenPublicKey} THEN "a"
    ELSE IF key \in {RefreshTokenPrivateKey, RefreshTokenPublicKey} THEN "r"
    ELSE IF key \in {"access-private-2", "access-public-2"} THEN "b"
    ELSE IF key \in {"refresh-private-2", "refresh-public-2"} THEN "s"
    ELSE ""

IsPrivateKey(key) ==
    key \in {AccessTokenPrivateKey, RefreshTokenPrivateKey,
             "access-private-2", "refresh-private-2"}
IsPublicKey(key) ==
    key \in {AccessTokenPublicKey, RefreshTokenPublicKey,
             "access-public-2", "refresh-public-2"}

\* sign(subject, privateKey, ttl): issuedAt = now, expiresAt = now + ttl
CreateToken(ttl, payload, privateKey, clock) ==
    IF ~IsPrivateKey(privateKey)
    THEN [token |-> "", err |-> "could not parse key"]
    ELSE [token |-> KeyPairOf(privateKey) \o "." \o DigitOf(payload) \o "."
                      \o DigitOf(clock) \o "." \o DigitOf(clock + ttl),
          err |-> ""]

WellFormedToken(token) ==
    /\ Len(token) = 7
    /\ CharAt(token, 2) = "." /\ CharAt(token, 4) = "." /\ CharAt(token, 6) = "."
    /\ IsDigit(CharAt(token, 3)) /\ IsDigit(CharAt(token, 5))
    /\ IsDigit(CharAt(token, 7))

TokenSigner(token) == CharAt(token, 1)
TokenSubject(token) == CharAt(token, 3)
TokenIssuedAt(token) == DigitVal(CharAt(token, 5))
TokenExpiresAt(token) == DigitVal(CharAt(token, 7))

\* verify(token, publicKey): decode, check the signature, check now <= expiresAt
ValidateToken(token, publicKey, clock) ==
    IF ~WellFormedToken(token)
    THEN [sub |-> "", err |-> "MalformedToken"]
    ELSE IF ~IsPublicKey(publicKey) \/ TokenSigner(token) # KeyPairOf(publicKey)
    THEN [sub |-> "", err |-> "InvalidSignature"]
    ELSE IF clock > TokenExpiresAt(token)
    THEN [sub |-> "", err |-> "TokenExpired"]
    ELSE [sub |-> TokenSubject(token), err |-> ""]

----------------------------------------------------------------------------
(* The MongoDB collection *)

ErrNoDocuments == "mongo: no documents in result"

NilObjectID == 0

\* primitive.ObjectIDFromHex with its error dropped: the zero ObjectID for
\* a string that is no ObjectID
ObjectIDFromHex(id) ==
    IF Len(id) = 1 /\ IsDigit(id) THEN DigitVal(id) ELSE NilObjectID

\* the zero value &models.DBResponse{}
EmptyDBResponse ==
    [id |-> NilObjectID, email |-> "", password |-> NotAHash(""),
     confirm_password |-> "", role |-> "", verified |-> FALSE]

Matching(coll, field, value) ==
    {i \in 1..Len(coll) : coll[i][field] = value}

\* collection.FindOne(query).Decode: the first matching document
FindOne(coll, field, value) ==
    IF Matching(coll, field, value) = {}
    THEN [doc |-> EmptyDBResponse, found |-> FALSE]
    ELSE [doc |-> coll[CHOOSE i \in Matching(coll, field, value) :
                        \A j \in Matching(coll, field, value) : i <= j],
          found |-> TRUE]

HasDuplicateEmails(coll) ==
    \E i, j \in 1..Len(coll) : i # j /\ coll[i].email = coll[j].email

\* collection.InsertOne: write error 11000 when the unique index exists and
\* the email is taken
InsertOneDuplicateKey(coll, index, doc) ==
    index /\ Matching(coll, "email", doc.email) # {}

\* AfterFindOne as FindOneAndDelete would leave the collection
AfterFindOne_Consumes(coll) == IF coll = << >> THEN coll ELSE Tail(coll)

\* the collection after FindUserById or FindUserByEmail: FindOne(...).Decode
\* is the one call either makes on it, and it reads
AfterFindOne(coll) == coll

\* UserServiceImpl.FindUserById
FindUserById(coll, id) ==
    LET r == FindOne(coll, "id", ObjectIDFromHex(id))
    IN  IF r.found THEN [user |-> r.doc, err |-> ""]
        ELSE [user |-> EmptyDBResponse, err |-> ErrNoDocuments]

\* UserServiceImpl.FindUserByEmail
FindUserByEmail(coll, email) ==
    LET r == FindOne(coll, "email", ToLower(email))
    IN  IF r.found THEN [user |-> r.doc, err |-> ""]
        ELSE [user |-> EmptyDBResponse, err |-> ErrNoDocuments]

\* FilteredResponse handing the DBResponse on as it is
FilteredResponse_Whole(user) == user

\* models.FilteredResponse
FilteredResponse(user) ==
    [id |-> user.id, email |-> user.email, role |-> user.role]

----------------------------------------------------------------------------
(* middleware.DeserializeUser *)

StatusOK == 200
StatusCreated == 201
StatusBadRequest == 400
StatusUnauthorized == 401
StatusForbidden == 403
StatusConflict == 409
StatusInternalServerError == 500
StatusBadGateway == 502

\* no response written yet: the handler goes on
NoResponse == [status |-> 0]

\* utils.ValidateToken on a candidate token given by its runes: a token is
\* made of ASCII characters, a candidate with another rune does not decode
ValidateCandidate(token, publicKey, clock) ==
    IF IsText(token) THEN ValidateToken(String(token), publicKey, clock)
    ELSE [sub |-> "", err |-> "MalformedToken"]

\* what one run of the middleware did; token: the runes of the candidate
\* token; status 0: the middleware wrote nothing; trace: its calls of
\* ValidateToken, FindUserById, AbortWithStatusJSON and Next in their
\* order, and a panic
MwStart ==
    [token |-> << >>, validateCalled |-> FALSE, validateErr |-> "", sub |-> "",
     findCalled |-> FALSE, findErr |-> "", outcome |-> "", status |-> 0,
     message |-> "", currentUserSet |-> FALSE, currentUser |-> EmptyDBResponse,
     nextRan |-> FALSE, trace |-> << >>]

\* MwAbort with ctx.JSON in place of ctx.AbortWithStatusJSON: the chain goes on
MwAbort_NoAbort(r, status, message) ==
    [r EXCEPT !.outcome = "Rejected", !.status = status, !.message = message,
              !.nextRan = TRUE, !.trace = Append(@, "JSON")]

\* ctx.AbortWithStatusJSON(...); return
MwAbort(r, status, message) ==
    [r EXCEPT !.outcome = "Rejected", !.status = status, !.message = message,
              !.trace = Append(@, "AbortWithStatusJSON")]

\* fields[1] of a one-element slice: index out of range.  The engine is
\* gin.Default(), whose Recovery middleware aborts the request with 500.
MwPanic(r) ==
    [r EXCEPT !.outcome = "Panicked", !.status = StatusInternalServerError,
              !.message = "runtime error: index out of range [1] with length 1",
              !.trace = Append(@, "panic")]

\* MwResolveUser without ctx.Set("currentUser", user)
MwResolveUser_NoSet(r, coll, sub) ==
    LET f == FindUserById(coll, sub)
        r1 == [r EXCEPT !.findCalled = TRUE, !.findErr = f.err,
                        !.trace = Append(@, "FindUserById")]
    IN  IF f.err # ""
        THEN [r1 EXCEPT !.outcome = "Rejected", !.status = StatusUnauthorized,
                        !.message = "The user belonging to this token no longer exists!",
                        !.trace = Append(@, "AbortWithStatusJSON")]
        ELSE [r1 EXCEPT !.outcome = "Authenticated", !.nextRan = TRUE,
                        !.trace = Append(@, "Next")]

\* MwResolveUser with the error of FindUserById dropped
MwResolveUser_ErrDropped(r, coll, sub) ==
    LET f == FindUserById(coll, sub)
    IN  [r EXCEPT !.findCalled = TRUE, !.findErr = f.err,
                  !.outcome = "Authenticated", !.currentUserSet = TRUE,
                  !.currentUser = f.user, !.nextRan = TRUE,
                  !.trace = @ \o << "FindUserById", "Next" >>]

\* lines 38-45: FindUserById, then ctx.Set("currentUser", user); ctx.Next()
MwResolveUser(r, coll, sub) ==
    LET f == FindUserById(coll, sub)
        r1 == [r EXCEPT !.findCalled = TRUE, !.findErr = f.err,
                        !.trace = Append(@, "FindUserById")]
    IN  IF f.err # ""
        THEN MwAbort(r1, StatusUnauthorized,
                     "The user belonging to this token no longer exists!")
        ELSE [r1 EXCEPT !.outcome = "Authenticated", !.currentUserSet = TRUE,
                        !.currentUser = f.user, !.nextRan = TRUE,
                        !.trace = Append(@, "Next")]

\* lines 32-36: ValidateToken under the access public key of the Config
\* that LoadConfig returned, at the time the clock shows
MwValidate(r, conf, clock) ==
    LET v == ValidateCandidate(r.token, conf.AccessTokenPublicKey, clock)
        r1 == [r EXCEPT !.validateCalled = TRUE, !.validateErr = v.err,
                        !.sub = v.sub, !.trace = Append(@, "ValidateToken")]
    IN  IF v.err # ""
        THEN MwAbort(r1, StatusUnauthorized, v.err)
        ELSE r1

\* lines 15-24: the candidate token, from the header or else the cookie
MwExtract(r, header, cookiePresent, cookie) ==
    LET fields == Fields(header)
    IN  IF Len(fields) # 0 /\ fields[1] = Runes("Bearer")
        THEN IF Len(fields) < 2 THEN MwPanic(r)
             ELSE [r EXCEPT !.token = fields[2]]
        ELSE IF cookiePresent THEN [r EXCEPT !.token = Runes(cookie)]
        ELSE r

\* lines 15-29: the candidate token, and 401 when there is none
MwCandidate(header, cookiePresent, cookie) ==
    LET r == MwExtract(MwStart, header, cookiePresent, cookie)
    IN  IF r.outcome = "Panicked" THEN r
        ELSE IF r.token = << >>
        THEN MwAbort(r, StatusUnauthorized, "You are not logged in!")
        ELSE r

\* one run of the middleware in which LoadConfig returns conf, ValidateToken
\* reads this time from the clock and FindUserById this collection
DeserializeUser(header, cookiePresent, cookie, conf, clock, coll) ==
    LET r == MwCandidate(header, cookiePresent, cookie)
    IN  IF r.outcome # "" THEN r
        ELSE LET v == MwValidate(r, conf, clock)
             IN  IF v.outcome # "" THEN v
                 ELSE MwResolveUser(v, coll, v.sub)

----------------------------------------------------------------------------
(* AuthController.SignInUser *)

SetCookie(name, value, maxAge, path, domain, secure, httpOnly) ==
    [name |-> name, value |-> value, maxAge |-> maxAge, path |-> path,
     domain |-> domain, secure |-> secure, httpOnly |-> httpOnly]

SignInFail(message) ==
    [status |-> StatusBadRequest, message |-> message, access_token |-> "",
     cookies |-> <<>>]

\* lines 50-54: ShouldBindJSON with binding:"required" on both fields
SignInBindOk(email, password) == email # "" /\ password # ""

SignInBindFailed ==
    SignInFail("Key: 'SignInInput' Error:Field validation failed on the 'required' tag")

\* SignInLookupFailed without the case of mongo.ErrNoDocuments
SignInLookupFailed_Leaky(err) == SignInFail(err)

\* lines 56-63: the answer to a failed FindUserByEmail
SignInLookupFailed(err) ==
    IF err = ErrNoDocuments THEN SignInFail("Invalid email or password")
    ELSE SignInFail(err)

\* lines 65-68: the answer to a failed VerifyPassword
SignInWrongPassword(err) == SignInFail("Invalid email or password")

\* lines 55-68: the account of the identifier, read from this collection,
\* and the password checked against its stored hash
SignInVerify(email, password, coll) ==
    LET f == FindUserByEmail(coll, email)
    IN  IF f.err # "" THEN [user |-> f.user, res |-> SignInLookupFailed(f.err)]
        ELSE LET e == VerifyPassword(f.user.password, password)
             IN  IF e # "" THEN [user |-> f.user, res |-> SignInWrongPassword(e)]
                 ELSE [user |-> f.user, res |-> NoResponse]

\* line 72: the access token
SignInAccessToken(user, config, clock) ==
    CreateToken(config.AccessTokenExpiredIn, user.id,
                config.AccessTokenPrivateKey, clock)

\* line 78: the refresh token
SignInRefreshToken(user, config, clock) ==
    CreateToken(config.RefreshTokenExpiredIn, user.id,
                config.RefreshTokenPrivateKey, clock)

\* SignInRefreshTokenFailed of a handler that had set the access_token
\* cookie and the body's token as soon as the access token was minted
SignInRefreshTokenFailed_KeepsAccess(accessToken, config, err) ==
    [SignInFail(err) EXCEPT
        !.access_token = accessToken,
        !.cookies = << SetCookie("access_token", accessToken,
                                 config.AccessTokenMaxAge * 60,
                                 "/", "localhost", FALSE, TRUE) >>]

\* lines 79-82: the answer to a failed second CreateToken
SignInRefreshTokenFailed(accessToken, config, err) == SignInFail(err)

\* SignInRespond with the max-age settings, which are minutes, passed to
\* SetCookie as they are
SignInRespond_MaxAgeMinutes(config, accessToken, refreshToken) ==
    [status |-> StatusOK, message |-> "success", access_token |-> accessToken,
     cookies |->
       << SetCookie("access_token", accessToken, config.AccessTokenMaxAge,
                    "/", "localhost", FALSE, TRUE),
          SetCookie("refresh_token", refreshToken, config.RefreshTokenMaxAge,
                    "/", "localhost", FALSE, TRUE),
          SetCookie("logged_in", "true", config.AccessTokenMaxAge,
                    "/", "localhost", FALSE, FALSE) >>]

\* lines 84-87: the three cookies and the 200
SignInRespond(config, accessToken, refreshToken) ==
    [status |-> StatusOK, message |-> "success", access_token |-> accessToken,
     cookies |->
       << SetCookie("access_token", accessToken, config.AccessTokenMaxAge * 60,
                    "/", "localhost", FALSE, TRUE),
          SetCookie("refresh_token", refreshToken, config.RefreshTokenMaxAge * 60,
                    "/", "localhost", FALSE, TRUE),
          SetCookie("logged_in", "true", config.AccessTokenMaxAge * 60,
                    "/", "localhost", FALSE, FALSE) >>]

\* lines 72-87: mint both tokens, the clock read once by each CreateToken,
\* set the three cookies, answer 200
SignInIssue(user, config, clockAccess, clockRefresh) ==
    LET a == SignInAccessToken(user, config, clockAccess)
    IN  IF a.err # "" THEN SignInFail(a.err)
        ELSE LET r == SignInRefreshToken(user, config, clockRefresh)
             IN  IF r.err # ""
                 THEN SignInRefreshTokenFailed(a.token, config, r.err)
                 ELSE SignInRespond(config, a.token, r.token)

\* one run of the handler in which FindUserByEmail reads this collection,
\* LoadConfig returns config and the two CreateToken read these times
SignInUser(email, password, coll, config, clockAccess, clockRefresh) ==
    IF ~SignInBindOk(email, password) THEN SignInBindFailed
    ELSE LET v == SignInVerify(email, password, coll)
         IN  IF v.res # NoResponse THEN v.res
             ELSE SignInIssue(v.user, config, clockAccess, clockRefresh)

\* the token strings a response carries in its cookies
TokensOf(res) ==
    {res.cookies[i].value :
        i \in {j \in 1..Len(res.cookies) :
                 res.cookies[j].name \in {"access_token", "refresh_token"}}}

----------------------------------------------------------------------------
(* AuthController.SignUpUser and AuthServiceImpl.SignUpUser *)

\* binding:"required" on email and confirm_password, "required,min=8" on password
SignUpBindOk(input) ==
    /\ input.email # ""
    /\ input.password # "" /\ Len(input.password) >= 8
    /\ input.confirm # ""

JSON(status, message) == [status |-> status, message |-> message]

\* controller lines 33-35: the 400 is written and the handler goes on
SignUpCheckConfirm(input) ==
    IF input.password # input.confirm
    THEN << JSON(StatusBadRequest, "Confirm Passwords do not match") >>
    ELSE << >>

\* SignUpDocument with role and verified as the request supplied them
SignUpDocument_AsSupplied(input, id, salt) ==
    [id |-> id, email |-> ToLower(input.email),
     password |-> HashPassword(input.password, salt).hash,
     confirm_password |-> "",
     role |-> input.role, verified |-> input.verified]

\* SignUpDocument with password and confirm_password as the request
\* was bound
SignUpDocument_AsBound(input, id, salt) ==
    [id |-> id, email |-> ToLower(input.email),
     password |-> NotAHash(input.password),
     confirm_password |-> input.confirm,
     role |-> "user", verified |-> TRUE]

\* service lines 28-35: the document handed to InsertOne; id is the
\* ObjectID the driver generates, salt the fresh bcrypt salt.  The error
\* of HashPassword is dropped (line 34).  confirm_password is set to "",
\* which bson's omitempty leaves out of the document and Decode reads
\* back as "".
SignUpDocument(input, id, salt) ==
    [id |-> id, email |-> ToLower(input.email),
     password |-> HashPassword(input.password, salt).hash,
     confirm_password |-> "",
     role |-> "user", verified |-> TRUE]

ErrDuplicateEmail == "user with this email already is existed"
ErrCreateIndex == "could not create index for email"

\* controller lines 38-45: the answer to an error of authService.SignUpUser
SignUpError(err) ==
    IF Contains(err, "email already exist")
    THEN JSON(StatusConflict, err)
    ELSE JSON(StatusBadGateway, err)


----------------------------------------------------------------------------
(* AuthController.RefreshAccessToken *)

RefreshFail(message) ==
    [status |-> StatusForbidden, message |-> message, access_token |-> "",
     cookies |-> << >>]

\* lines 91-96: the answer to a request without the refresh_token cookie
RefreshNoCookie == RefreshFail("could not refresh access tokens.")

\* lines 99-102: the answer to a failed ValidateToken
RefreshValidateFailed(err) == RefreshFail(err)

\* RefreshValidate with the error of ValidateToken dropped
RefreshValidate_Unchecked(cookie, config, clock) ==
    [sub |-> IF WellFormedToken(cookie) THEN TokenSubject(cookie) ELSE "",
     res |-> NoResponse]

\* lines 98-102: ValidateToken under the refresh public key of the Config
\* that LoadConfig returned, at the time the clock shows
RefreshValidate(cookie, config, clock) ==
    LET v == ValidateToken(cookie, config.RefreshTokenPublicKey, clock)
    IN  IF v.err # "" THEN [sub |-> v.sub, res |-> RefreshValidateFailed(v.err)]
        ELSE [sub |-> v.sub, res |-> NoResponse]

\* RefreshResolve with the error of FindUserById dropped
RefreshResolve_ErrDropped(sub, coll) ==
    [user |-> FindUserById(coll, sub).user, res |-> NoResponse]

\* lines 103-107: the account of the subject, read again from the store
RefreshResolve(sub, coll) ==
    LET f == FindUserById(coll, sub)
    IN  IF f.err # ""
        THEN [user |-> f.user,
              res |-> RefreshFail("the user belonging to this token no longer exists")]
        ELSE [user |-> f.user, res |-> NoResponse]

\* RefreshIssue that also mints a refresh token and sets its cookie
RefreshIssue_Rotates(user, config, clock) ==
    LET a == CreateToken(config.AccessTokenExpiredIn, user.id,
                         config.AccessTokenPrivateKey, clock)
        r == CreateToken(config.RefreshTokenExpiredIn, user.id,
                         config.RefreshTokenPrivateKey, clock)
    IN  [status |-> StatusOK, message |-> "success", access_token |-> a.token,
         cookies |->
           << SetCookie("access_token", a.token, config.AccessTokenMaxAge * 60,
                        "/", "localhost", FALSE, TRUE),
              SetCookie("refresh_token", r.token, config.RefreshTokenMaxAge * 60,
                        "/", "localhost", FALSE, TRUE),
              SetCookie("logged_in", "true", config.AccessTokenMaxAge * 60,
                        "/", "localhost", FALSE, FALSE) >>]

\* lines 108-115: mint the access token, set the two cookies, answer 200
RefreshIssue(user, config, clock) ==
    LET a == CreateToken(config.AccessTokenExpiredIn, user.id,
                         config.AccessTokenPrivateKey, clock)
    IN  IF a.err # "" THEN RefreshFail(a.err)
        ELSE [status |-> StatusOK, message |-> "success",
              access_token |-> a.token,
              cookies |->
                << SetCookie("access_token", a.token,
                             config.AccessTokenMaxAge * 60,
                             "/", "localhost", FALSE, TRUE),
                   SetCookie("logged_in", "true",
                             config.AccessTokenMaxAge * 60,
                             "/", "localhost", FALSE, FALSE) >>]

\* one run of the handler in which LoadConfig returns config, ValidateToken
\* reads clockValidate from the clock, FindUserById reads this collection
\* and CreateToken reads clockCreate
RefreshAccessToken(present, cookie, config, clockValidate, coll, clock) ==
    IF ~present THEN RefreshNoCookie
    ELSE LET v == RefreshValidate(cookie, config, clockValidate)
         IN  IF v.res # NoResponse THEN v.res
             ELSE LET f == RefreshResolve(v.sub, coll)
                  IN  IF f.res # NoResponse THEN f.res
                      ELSE RefreshIssue(f.user, config, clock)

----------------------------------------------------------------------------
(* AuthController.LogoutUser *)

\* logout(): the three cookies are cleared
LogoutUser ==
    [status |-> StatusOK, message |-> "success",
     cookies |->
       << SetCookie("access_token", "", -1, "/", "localhost", FALSE, TRUE),
          SetCookie("refresh_token", "", -1, "/", "localhost", FALSE, TRUE),
          SetCookie("logged_in", "", -1, "/", "localhost", FALSE, FALSE) >>]

\* the collection after LogoutUser: the handler makes no call on it
LogoutUserStore(coll, user) == coll

----------------------------------------------------------------------------
(* UserController.GetMe *)

\* ctx.MustGet("currentUser") panics when the key is not set; Recovery
\* answers 500
GetMe(c) ==
    IF ~c.currentUserSet
    THEN [status |-> StatusInternalServerError, panicked |-> TRUE,
          user |-> FilteredResponse(EmptyDBResponse)]
    ELSE [status |-> StatusOK, panicked |-> FALSE,
          user |-> FilteredResponse(c.currentUser)]

----------------------------------------------------------------------------
(* Requests *)

RegProcs == 1..MaxSignUps

Emails == {"a@x.com", "A@x.com", "b@x.com"}
Passwords == {"secret123", "password456"}

\* registration bodies: matching and differing confirmations, and a
\* password shorter than the binding allows
SignUpInputs ==
    {in \in [email : Emails, password : Passwords, confirm : Passwords,
             role : {"", "user", "admin"}, verified : BOOLEAN] :
        /\ in.password = "secret123" \/ in.confirm = in.password
        /\ <<in.role, in.verified>>
              \in {<<"", FALSE>>, <<"admin", FALSE>>, <<"user", TRUE>>}}
      \cup [email : {"a@x.com"}, password : {"short"}, confirm : {"short"},
            role : {""}, verified : {FALSE}]

\* registration bodies that bind, whose confirmation matches and that
\* supply neither role nor verified
MatchingSignUpInputs ==
    {in \in SignUpInputs :
        /\ SignUpBindOk(in) /\ in.confirm = in.password /\ in.email # "a@x.com"
        /\ in.role = "" /\ ~in.verified}

\* ... and whose password is "secret123"
SessionSignUpInputs ==
    {in \in MatchingSignUpInputs : in.password = "secret123"}

\* what a client can put in a header or a cookie: a token it was handed
\* (an access or a refresh token) or a string that is no token
TokensOnWire == issued \cup {"garbage"}

NoCookie == [present |-> FALSE, value |-> ""]
Cookie(value) == [present |-> TRUE, value |-> value]

\* runes a client can put between the scheme and the token of an
\* Authorization header: the white space U+0020, tab, U+0085, U+00A0 and
\* U+2003, and the letter U+00E9, which is no white space
Space == 32
Tab == 9
NextLine == 133
NoBreakSpace == 160
EmSpace == 8195
EAcute == 233

Separators == {Space, Tab, NextLine, NoBreakSpace, EmSpace}

\* the header "Bearer", this rune, this token
Bearer(sep, token) == Runes("Bearer") \o << sep >> \o Runes(token)

\* requests to a route behind the middleware: the Authorization header,
\* its scheme and token separated by white space or by a letter, and the
\* access_token cookie
MwRequests ==
    [header : {Runes(""), Runes("Bearer"), Runes("Basic abc"),
               Runes("Bearer gar") \o << EAcute >> \o Runes("bage")}
                \cup {Bearer(Space, t) : t \in TokensOnWire}
                \cup {Bearer(sep, t) : sep \in Separators \cup {EAcute},
                                       t \in issued},
     cookie : {NoCookie}]
      \cup [header : {Runes("")},
            cookie : {Cookie(t) : t \in issued \cup {""}}]
      \cup [header : {Runes("Basic abc"), Runes("Bearer")}
                       \cup {Bearer(EAcute, t) : t \in issued},
            cookie : {Cookie(t) : t \in issued}]
      \cup [header : {Bearer(Space, t) : t \in issued},
            cookie : {Cookie("garbage")}]

\* the refresh_token cookie of a request to GET /auth/refresh
RefreshCookies == {NoCookie} \cup {Cookie(t) : t \in TokensOnWire \cup {""}}

\* requests of a client that presents a token it was handed, or none
SessionRequests ==
    [header : {Runes("")} \cup {Bearer(Space, t) : t \in TokensOnWire}
                \cup {Bearer(NoBreakSpace, t) : t \in issued},
     cookie : {NoCookie}]
      \cup [header : {Runes("")}, cookie : {Cookie(t) : t \in issued}]

\* requests of a client that logs out with the token it was handed in the
\* header, or with none
LogoutRequests ==
    [header : {Runes("")} \cup {Bearer(Space, t) : t \in issued},
     cookie : {NoCookie}]

\* what an operator can put into app.env
AppEnvs == {StartupAppEnv, RotatedAppEnv, DamagedAppEnv}

\* the requests to the routes that are no registration, each with its own
\* gin.Context and goroutine
ReqProcs == 1..MaxRequests

\* what a request carries: the body of POST /auth/login, the Authorization
\* header, and the cookie its route reads
NoRequest ==
    [email |-> "", password |-> "", header |-> << >>, cookie |-> NoCookie]

\* one request: where its handler stands, the handler's local variables
\* (config, sub, user, accessToken), the middleware's record, the response
\* and, for the properties, what the handler's reads met: the time
\* ValidateToken read from the clock, whether the account FindUserById
\* looked for was in the store, the registrations that were complete when
\* FindUserByEmail read, whether the request arrived after LogoutUser had
\* answered the account of the token it presents
CtxIdle ==
    [pc |-> "idle", route |-> "", req |-> NoRequest,
     config |-> ZeroConfig, configErr |-> "", mw |-> MwStart, sub |-> "",
     user |-> EmptyDBResponse, accessToken |-> "", res |-> NoResponse,
     validated |-> FALSE, validatedAt |-> 0,
     lookedUp |-> FALSE, stored |-> FALSE, registered |-> {},
     afterLogout |-> FALSE]

\* viper.New(): the instance the package starts with
NewViper ==
    [configPaths |-> {}, configType |-> "", configName |-> "config",
     configFile |-> "", automaticEnv |-> FALSE, config |-> ZeroConfig]

\* a request's position inside config.LoadConfig, the locals of viper's
\* getConfigFile and ReadInConfig (the file findConfigFile found, the
\* name getConfigFile returned, the settings read from the file), the
\* settings the Viper instance has held since its ReadInConfig stored
\* them and the requests it shared the instance with
LoadIdle ==
    [pc |-> "idle", cf |-> "", filename |-> "", file |-> ZeroConfig,
     seen |-> {}, sharedWith |-> {}]

RegIdle ==
    [pc |-> "idle",
     input |-> [email |-> "", password |-> "", confirm |-> "", role |-> "",
                verified |-> FALSE],
     serviceCalled |-> FALSE, salt |-> NoSalt, hashErr |-> "",
     insertedID |-> NilObjectID, writes |-> << >>]

\* main.go: init() has loaded app.env once before the server listens
Init ==
    /\ users = << >>
    /\ emailIndex = FALSE
    /\ reg = [p \in RegProcs |-> RegIdle]
    /\ now = 0
    /\ issued = {}
    /\ appEnv = StartupAppEnv
    /\ ctxs = [p \in ReqProcs |-> CtxIdle]
    /\ loggedOut = {}
    /\ refreshed = {}
    /\ viper = ViperAfterLoadConfig(NewViper, ".", StartupAppEnv)
    /\ loads = [p \in ReqProcs |-> LoadIdle]

\* POST /auth/register up to the return of InsertOne (controller lines 25-37,
\* service lines 27-42), bcrypt drawing this salt
SignUpUserInsertWith(p, input, salt) ==
    /\ reg[p].pc = "idle"
    /\ UNCHANGED <<emailIndex, now, issued>>
    /\ UNCHANGED <<sessionVars, viper>>
    /\ IF ~SignUpBindOk(input)
       THEN /\ reg' = [reg EXCEPT ![p] =
                   [@ EXCEPT !.pc = "done", !.input = input,
                             !.writes = << JSON(StatusBadRequest,
                                 "Key: 'SignUpInput' Error:Field validation failed") >>]]
            /\ UNCHANGED users
       ELSE LET doc == SignUpDocument(input, p, salt)
                w == SignUpCheckConfirm(input)
                h == HashPassword(input.password, salt).err
            IN  IF InsertOneDuplicateKey(users, emailIndex, doc)
                THEN /\ reg' = [reg EXCEPT ![p] =
                            [@ EXCEPT !.pc = "done", !.input = input,
                                      !.serviceCalled = TRUE,
                                      !.salt = salt, !.hashErr = h,
                                      !.writes = Append(w, SignUpError(ErrDuplicateEmail))]]
                     /\ UNCHANGED users
                ELSE /\ users' = Append(users, doc)
                     /\ reg' = [reg EXCEPT ![p] =
                            [@ EXCEPT !.pc = "index", !.input = input,
                                      !.serviceCalled = TRUE,
                                      !.salt = salt, !.hashErr = h,
                                      !.insertedID = doc.id, !.writes = w]]

\* POST /auth/register while bcrypt has its random source
SignUpUserInsert(p, input) == SignUpUserInsertWith(p, input, p)

\* POST /auth/register while the random source fails
SignUpUserInsertNoEntropy(p, input) == SignUpUserInsertWith(p, input, NoSalt)

\* service lines 44-51: Indexes().CreateOne of the unique index on email
SignUpUserCreateIndex(p) ==
    /\ reg[p].pc = "index"
    /\ UNCHANGED <<users, now, issued>>
    /\ UNCHANGED <<sessionVars, viper>>
    /\ IF ~emailIndex /\ HasDuplicateEmails(users)
       THEN /\ reg' = [reg EXCEPT ![p] =
                   [@ EXCEPT !.pc = "done",
                             !.writes = Append(@, SignUpError(ErrCreateIndex))]]
            /\ UNCHANGED emailIndex
       ELSE /\ emailIndex' = TRUE
            /\ reg' = [reg EXCEPT ![p] = [@ EXCEPT !.pc = "find"]]

\* service lines 53-60 and controller lines 38-46: read the document back
SignUpUserFindOne(p) ==
    /\ reg[p].pc = "find"
    /\ UNCHANGED <<users, emailIndex, now, issued>>
    /\ UNCHANGED <<sessionVars, viper>>
    /\ LET f == FindOne(users, "id", reg[p].insertedID)
       IN  reg' = [reg EXCEPT ![p] =
               [@ EXCEPT !.pc = "done",
                         !.writes = Append(@,
                             IF f.found
                             THEN [status |-> StatusCreated, message |-> "success",
                                   user |-> FilteredResponse(f.doc)]
                             ELSE SignUpError(ErrNoDocuments))]]

\* another client of the database removes an account
DeleteAccount(i) ==
    /\ users' = [j \in 1..(Len(users) - 1) |->
                    IF j < i THEN users[j] ELSE users[j + 1]]
    /\ UNCHANGED <<emailIndex, reg, now, issued>>
    /\ UNCHANGED <<sessionVars, viper>>

\* time passes: d quarters of an hour
Tick(d) ==
    /\ now < MaxTime
    /\ now' = now + d
    /\ UNCHANGED <<users, emailIndex, reg, issued>>
    /\ UNCHANGED <<sessionVars, viper>>

\* an operator rewrites app.env, or takes it away, while the process runs
ChangeConfig(env) ==
    /\ env # appEnv
    /\ appEnv' = env
    /\ UNCHANGED <<users, emailIndex, reg, now, issued,
                   ctxs, loggedOut, refreshed, viper, loads>>

StoredIds == {users[i].id : i \in 1..Len(users)}

\* registration p was answered 201 Created
Registered(p) ==
    /\ reg[p].pc = "done"
    /\ reg[p].writes[Len(reg[p].writes)].status = StatusCreated

\* the registrations that are complete and whose accounts are in the store
RegisteredAccounts ==
    {q \in RegProcs : Registered(q) /\ reg[q].insertedID \in StoredIds}

\* request p has not arrived yet
Arrives(p) == ctxs[p].pc = "idle"

----------------------------------------------------------------------------
(* config.LoadConfig, called by the handler of request p.  The package     *)
(* functions of viper work on the one package-level instance without a     *)
(* lock.  A step is a call that reads or writes a field of the instance    *)
(* another request writes, or that reads app.env.                          *)

\* the other requests that are inside LoadConfig, between its first call
\* on the Viper instance and its last
InLoadConfig(p) == {q \in ReqProcs \ {p} : loads[q].pc # "idle"}

\* a call of request p on the package-level Viper instance meets the
\* calls of all requests that are inside LoadConfig: they share the
\* instance with p and p with them
LoadConfigShares(l, p) ==
    [q \in ReqProcs |->
        IF q \in InLoadConfig(p)
        THEN [l[q] EXCEPT !.sharedWith = @ \cup {p}]
        ELSE IF q = p
        THEN [l[q] EXCEPT !.sharedWith = @ \cup InLoadConfig(p)]
        ELSE l[q]]

\* the settings request p stores replace those of the instance under
\* every request that is about to unmarshal or unmarshalling
LoadConfigSeen(l, p, config) ==
    [q \in ReqProcs |->
        IF q = p \/ l[q].pc = "Unmarshal"
        THEN [l[q] EXCEPT !.seen = @ \cup {config}]
        ELSE l[q]]

\* where the handler goes on when LoadConfig has returned
AfterLoadConfig(route) ==
    IF route = "SignInUser" THEN "CreateAccessToken" ELSE "ValidateToken"

\* config, _ := config.LoadConfig("."): the handler keeps the Config and
\* drops the error
LoadConfigReturns(c, config, err) ==
    [c EXCEPT !.config = config, !.configErr = err,
              !.pc = AfterLoadConfig(c.route)]

\* lines 623-626, ReadInConfig has failed: LoadConfig returns the zero
\* Config and the error, and the instance keeps its settings
LoadConfigFails(p, err) ==
    /\ loads' = [LoadConfigShares(loads, p) EXCEPT ![p] = LoadIdle]
    /\ ctxs' = [ctxs EXCEPT ![p] = LoadConfigReturns(@, ZeroConfig, err)]

\* lines 617-621: AddConfigPath, SetConfigType and AutomaticEnv write to
\* the instance what init() has written already, SetConfigName forgets
\* the file the instance had found
LoadConfigSetUp(p) ==
    /\ ctxs[p].pc = "LoadConfig"
    /\ loads[p].pc = "idle"
    /\ viper' = [SetConfigName([viper EXCEPT !.configPaths = @ \cup {"."},
                                             !.configType = "env"], "app")
                    EXCEPT !.automaticEnv = TRUE]
    /\ loads' = LoadConfigShares([loads EXCEPT ![p].pc = "getConfigFile"], p)
    /\ UNCHANGED <<users, emailIndex, reg, now, issued,
                   appEnv, ctxs, loggedOut, refreshed>>

\* line 623, viper.ReadInConfig calls getConfigFile, which tests whether
\* the instance has a file (if v.configFile == "")
LoadConfigGetConfigFile(p) ==
    /\ loads[p].pc = "getConfigFile"
    /\ loads' = LoadConfigShares(
                    [loads EXCEPT ![p].pc = IF viper.configFile = ""
                                            THEN "findConfigFile"
                                            ELSE "returnConfigFile"], p)
    /\ UNCHANGED <<users, emailIndex, reg, now, issued,
                   appEnv, ctxs, loggedOut, refreshed, viper>>

\* line 623, getConfigFile calls findConfigFile, which looks through the
\* search path for app.env as it is at that moment; when there is none
\* ReadInConfig fails
LoadConfigFindConfigFile(p) ==
    /\ loads[p].pc = "findConfigFile"
    /\ LET f == FindConfigFile(appEnv)
       IN  IF f.err # ""
           THEN LoadConfigFails(p, f.err)
           ELSE /\ loads' = LoadConfigShares(
                                [loads EXCEPT ![p].pc = "setConfigFile",
                                              ![p].cf = f.name], p)
                /\ ctxs' = ctxs
    /\ UNCHANGED <<users, emailIndex, reg, now, issued,
                   appEnv, loggedOut, refreshed, viper>>

\* line 623, getConfigFile keeps what findConfigFile found
\* (v.configFile = cf)
LoadConfigSetConfigFile(p) ==
    /\ loads[p].pc = "setConfigFile"
    /\ viper' = [viper EXCEPT !.configFile = loads[p].cf]
    /\ loads' = LoadConfigShares(
                    [loads EXCEPT ![p].pc = "returnConfigFile",
                                  ![p].cf = ""], p)
    /\ UNCHANGED <<users, emailIndex, reg, now, issued,
                   appEnv, ctxs, loggedOut, refreshed>>

\* line 623, getConfigFile returns the file the instance has at that
\* moment (return v.configFile, nil): none when the SetConfigName of
\* another request has come in between
LoadConfigReturnConfigFile(p) ==
    /\ loads[p].pc = "returnConfigFile"
    /\ loads' = LoadConfigShares(
                    [loads EXCEPT ![p].pc = "ReadFile",
                                  ![p].filename = viper.configFile], p)
    /\ UNCHANGED <<users, emailIndex, reg, now, issued,
                   appEnv, ctxs, loggedOut, refreshed, viper>>

\* line 623, ReadInConfig reads the file of the name getConfigFile
\* returned, as app.env is at that moment; when it cannot ReadInConfig
\* fails
LoadConfigReadFile(p) ==
    /\ loads[p].pc = "ReadFile"
    /\ LET r == ReadFile(loads[p].filename, appEnv)
       IN  IF r.err # ""
           THEN LoadConfigFails(p, r.err)
           ELSE /\ loads' = LoadConfigShares(
                                [loads EXCEPT ![p].pc = "StoreConfig",
                                              ![p].filename = "",
                                              ![p].file = r.config], p)
                /\ ctxs' = ctxs
    /\ UNCHANGED <<users, emailIndex, reg, now, issued,
                   appEnv, loggedOut, refreshed, viper>>

\* line 623, the last statement of viper.ReadInConfig: the settings that
\* were read become those of the instance
LoadConfigStoreConfig(p) ==
    /\ loads[p].pc = "StoreConfig"
    /\ viper' = [viper EXCEPT !.config = loads[p].file]
    /\ loads' = LoadConfigSeen(
                    LoadConfigShares(
                        [loads EXCEPT ![p].pc = "Unmarshal",
                                      ![p].file = ZeroConfig], p),
                    p, loads[p].file)
    /\ UNCHANGED <<users, emailIndex, reg, now, issued,
                   appEnv, ctxs, loggedOut, refreshed>>

\* lines 628-629: viper.Unmarshal fills the Config key by key from the
\* instance, which holds what this request stored unless another
\* request's ReadInConfig has replaced it, before or while Unmarshal reads
LoadConfigUnmarshal(p) ==
    /\ loads[p].pc = "Unmarshal"
    /\ \E config \in Unmarshal(loads[p].seen) :
           ctxs' = [ctxs EXCEPT ![p] = LoadConfigReturns(@, config, "")]
    /\ loads' = [LoadConfigShares(loads, p) EXCEPT ![p] = LoadIdle]
    /\ UNCHANGED <<users, emailIndex, reg, now, issued,
                   appEnv, loggedOut, refreshed, viper>>

----------------------------------------------------------------------------
(* POST /auth/login, request p *)

\* lines 50-54: the body is bound
SignInUserBind(p, email, password) ==
    /\ Arrives(p)
    /\ ctxs' = [ctxs EXCEPT ![p] =
           IF SignInBindOk(email, password)
           THEN [CtxIdle EXCEPT !.pc = "FindUserByEmail", !.route = "SignInUser",
                                !.req.email = email, !.req.password = password]
           ELSE [CtxIdle EXCEPT !.pc = "done", !.route = "SignInUser",
                                !.req.email = email, !.req.password = password,
                                !.res = SignInBindFailed]]
    /\ UNCHANGED <<users, emailIndex, reg, now, issued,
                   appEnv, loggedOut, refreshed, viper, loads>>

\* lines 55-68: FindUserByEmail reads the store, VerifyPassword compares
SignInUserFindUserByEmail(p) ==
    /\ ctxs[p].pc = "FindUserByEmail"
    /\ LET c == ctxs[p]
           v == SignInVerify(c.req.email, c.req.password, users)
       IN  ctxs' = [ctxs EXCEPT ![p] =
               [c EXCEPT !.user = v.user, !.res = v.res,
                         !.lookedUp = TRUE, !.registered = RegisteredAccounts,
                         !.pc = IF v.res = NoResponse THEN "LoadConfig"
                                ELSE "done"]]
    /\ users' = AfterFindOne(users)
    /\ UNCHANGED <<emailIndex, reg, now, issued,
                   appEnv, loggedOut, refreshed, viper, loads>>

\* lines 72-76: the first CreateToken reads the clock
SignInUserCreateAccessToken(p) ==
    /\ ctxs[p].pc = "CreateAccessToken"
    /\ ctxs[p].route = "SignInUser"
    /\ LET c == ctxs[p]
           a == SignInAccessToken(c.user, c.config, now)
       IN  ctxs' = [ctxs EXCEPT ![p] =
               IF a.err # ""
               THEN [c EXCEPT !.pc = "done", !.res = SignInFail(a.err)]
               ELSE [c EXCEPT !.pc = "CreateRefreshToken",
                              !.accessToken = a.token]]
    /\ UNCHANGED <<users, emailIndex, reg, now, issued,
                   appEnv, loggedOut, refreshed, viper, loads>>

\* lines 78-87: the second CreateToken reads the clock; the cookies are
\* set and the response is written
SignInUserCreateRefreshToken(p) ==
    /\ ctxs[p].pc = "CreateRefreshToken"
    /\ LET c == ctxs[p]
           r == SignInRefreshToken(c.user, c.config, now)
           res == IF r.err # ""
                  THEN SignInRefreshTokenFailed(c.accessToken, c.config, r.err)
                  ELSE SignInRespond(c.config, c.accessToken, r.token)
       IN  /\ ctxs' = [ctxs EXCEPT ![p] = [c EXCEPT !.pc = "done", !.res = res]]
           /\ issued' = issued \cup TokensOf(res)
    /\ UNCHANGED <<users, emailIndex, reg, now,
                   appEnv, loggedOut, refreshed, viper, loads>>

----------------------------------------------------------------------------
(* GET /auth/refresh, request p *)

\* lines 91-96: the refresh_token cookie is read
RefreshAccessTokenCookie(p, cookie) ==
    /\ Arrives(p)
    /\ ctxs' = [ctxs EXCEPT ![p] =
           IF cookie.present
           THEN [CtxIdle EXCEPT !.pc = "LoadConfig",
                                !.route = "RefreshAccessToken",
                                !.req.cookie = cookie,
                                !.afterLogout = cookie.value \in loggedOut]
           ELSE [CtxIdle EXCEPT !.pc = "done", !.route = "RefreshAccessToken",
                                !.req.cookie = cookie,
                                !.res = RefreshNoCookie]]
    /\ UNCHANGED <<users, emailIndex, reg, now, issued,
                   appEnv, loggedOut, refreshed, viper, loads>>

\* lines 98-102: ValidateToken reads the clock
RefreshAccessTokenValidateToken(p) ==
    /\ ctxs[p].pc = "ValidateToken"
    /\ ctxs[p].route = "RefreshAccessToken"
    /\ LET c == ctxs[p]
           v == RefreshValidate(c.req.cookie.value, c.config, now)
       IN  ctxs' = [ctxs EXCEPT ![p] =
               [c EXCEPT !.sub = v.sub, !.res = v.res,
                         !.validated = TRUE, !.validatedAt = now,
                         !.pc = IF v.res = NoResponse THEN "FindUserById"
                                ELSE "done"]]
    /\ UNCHANGED <<users, emailIndex, reg, now, issued,
                   appEnv, loggedOut, refreshed, viper, loads>>

\* lines 103-107: FindUserById reads the store
RefreshAccessTokenFindUserById(p) ==
    /\ ctxs[p].pc = "FindUserById"
    /\ ctxs[p].route = "RefreshAccessToken"
    /\ LET c == ctxs[p]
           f == RefreshResolve(c.sub, users)
       IN  ctxs' = [ctxs EXCEPT ![p] =
               [c EXCEPT !.user = f.user, !.res = f.res,
                         !.lookedUp = TRUE,
                         !.stored = ObjectIDFromHex(c.sub) \in StoredIds,
                         !.pc = IF f.res = NoResponse THEN "CreateToken"
                                ELSE "done"]]
    /\ users' = AfterFindOne(users)
    /\ UNCHANGED <<emailIndex, reg, now, issued,
                   appEnv, loggedOut, refreshed, viper, loads>>

\* lines 108-115: CreateToken reads the clock; the cookies are set and the
\* response is written
RefreshAccessTokenCreateToken(p) ==
    /\ ctxs[p].pc = "CreateToken"
    /\ LET c == ctxs[p]
           res == RefreshIssue(c.user, c.config, now)
       IN  /\ ctxs' = [ctxs EXCEPT ![p] =
                  [c EXCEPT !.pc = "done", !.res = res,
                            !.accessToken = res.access_token]]
           /\ issued' = issued \cup TokensOf(res)
           /\ refreshed' = IF res.status = StatusOK
                           THEN refreshed \cup {c.req.cookie.value}
                           ELSE refreshed
    /\ UNCHANGED <<users, emailIndex, reg, now,
                   appEnv, loggedOut, viper, loads>>

----------------------------------------------------------------------------
(* The routes behind middleware.DeserializeUser, request p *)

\* where the request goes when the middleware has returned with this
\* record: on to the handler behind it, or nowhere
AfterMiddleware(m) == IF m.nextRan THEN "Next" ELSE "done"

\* lines 15-29: the candidate token is taken from the request
DeserializeUserCandidate(p, route, header, cookie) ==
    /\ Arrives(p)
    /\ LET m == MwCandidate(header, cookie.present, cookie.value)
       IN  ctxs' = [ctxs EXCEPT ![p] =
               [CtxIdle EXCEPT !.route = route, !.req.header = header,
                               !.req.cookie = cookie, !.mw = m,
                               !.afterLogout =
                                   \E t \in loggedOut : m.token = Runes(t),
                               !.pc = IF m.outcome = "" THEN "LoadConfig"
                                      ELSE AfterMiddleware(m)]]
    /\ UNCHANGED <<users, emailIndex, reg, now, issued,
                   appEnv, loggedOut, refreshed, viper, loads>>

\* lines 32-36: ValidateToken reads the clock
DeserializeUserValidateToken(p) ==
    /\ ctxs[p].pc = "ValidateToken"
    /\ ctxs[p].route \in {"GetMe", "LogoutUser"}
    /\ LET c == ctxs[p]
           m == MwValidate(c.mw, c.config, now)
       IN  ctxs' = [ctxs EXCEPT ![p] =
               [c EXCEPT !.mw = m, !.validated = TRUE, !.validatedAt = now,
                         !.pc = IF m.outcome = "" THEN "FindUserById"
                                ELSE AfterMiddleware(m)]]
    /\ UNCHANGED <<users, emailIndex, reg, now, issued,
                   appEnv, loggedOut, refreshed, viper, loads>>

\* lines 38-45: FindUserById reads the store; ctx.Set and ctx.Next
DeserializeUserFindUserById(p) ==
    /\ ctxs[p].pc = "FindUserById"
    /\ ctxs[p].route \in {"GetMe", "LogoutUser"}
    /\ LET c == ctxs[p]
           m == MwResolveUser(c.mw, users, c.mw.sub)
       IN  ctxs' = [ctxs EXCEPT ![p] =
               [c EXCEPT !.mw = m, !.lookedUp = TRUE,
                         !.stored = ObjectIDFromHex(c.mw.sub) \in StoredIds,
                         !.pc = AfterMiddleware(m)]]
    /\ users' = AfterFindOne(users)
    /\ UNCHANGED <<emailIndex, reg, now, issued,
                   appEnv, loggedOut, refreshed, viper, loads>>

\* GET /users/me arrives
GetMeRequest(p, header, cookie) ==
    DeserializeUserCandidate(p, "GetMe", header, cookie)

\* GET /auth/logout arrives
LogoutUserRequest(p, header, cookie) ==
    DeserializeUserCandidate(p, "LogoutUser", header, cookie)

\* GET /users/me: GetMe on the context of this request
GetMeHandler(p) ==
    /\ ctxs[p].pc = "Next"
    /\ ctxs[p].route = "GetMe"
    /\ ctxs' = [ctxs EXCEPT ![p] =
                   [@ EXCEPT !.pc = "done", !.res = GetMe(ctxs[p].mw)]]
    /\ UNCHANGED <<users, emailIndex, reg, now, issued,
                   appEnv, loggedOut, refreshed, viper, loads>>

\* the tokens handed out so far with the id of this account as subject
TokensHeldBy(user) ==
    {t \in issued :
        WellFormedToken(t) /\ ObjectIDFromHex(TokenSubject(t)) = user.id}

\* GET /auth/logout: LogoutUser on the context of this request
LogoutUserHandler(p) ==
    /\ ctxs[p].pc = "Next"
    /\ ctxs[p].route = "LogoutUser"
    /\ ctxs' = [ctxs EXCEPT ![p] = [@ EXCEPT !.pc = "done", !.res = LogoutUser]]
    /\ users' = LogoutUserStore(users, ctxs[p].mw.currentUser)
    /\ loggedOut' = loggedOut \cup TokensHeldBy(ctxs[p].mw.currentUser)
    /\ UNCHANGED <<emailIndex, reg, now, issued,
                   appEnv, refreshed, viper, loads>>

----------------------------------------------------------------------------
(* Specifications.  Every request is served once; which request takes     *)
(* which route is fixed per specification.                                 *)

\* the registration of "A@x.com" with the password "secret123"
OneSignUp == {in \in SessionSignUpInputs : in.email = "A@x.com"}

\* the routes AuthRoute mounts: a registration, a login, a refresh and a
\* logout behind the middleware, over a store that other clients delete
\* from, while time passes
Next ==
    \/ \E input \in OneSignUp : SignUpUserInsert(1, input)
    \/ SignUpUserCreateIndex(1)
    \/ SignUpUserFindOne(1)
    \/ \E password \in Passwords : SignInUserBind(1, "a@x.com", password)
    \/ SignInUserFindUserByEmail(1)
    \/ SignInUserCreateAccessToken(1)
    \/ SignInUserCreateRefreshToken(1)
    \/ \E c \in RefreshCookies : RefreshAccessTokenCookie(2, c)
    \/ RefreshAccessTokenValidateToken(2)
    \/ RefreshAccessTokenFindUserById(2)
    \/ RefreshAccessTokenCreateToken(2)
    \/ \E r \in LogoutRequests : LogoutUserRequest(3, r.header, r.cookie)
    \/ DeserializeUserValidateToken(3)
    \/ DeserializeUserFindUserById(3)
    \/ LogoutUserHandler(3)
    \/ \E p \in ReqProcs : LoadConfigSetUp(p)
    \/ \E p \in ReqProcs : LoadConfigGetConfigFile(p)
    \/ \E p \in ReqProcs : LoadConfigFindConfigFile(p)
    \/ \E p \in ReqProcs : LoadConfigSetConfigFile(p)
    \/ \E p \in ReqProcs : LoadConfigReturnConfigFile(p)
    \/ \E p \in ReqProcs : LoadConfigReadFile(p)
    \/ \E p \in ReqProcs : LoadConfigStoreConfig(p)
    \/ \E p \in ReqProcs : LoadConfigUnmarshal(p)
    \/ \E i \in 1..Len(users) : DeleteAccount(i)
    \/ \E d \in {1, RefreshTokenExpiredIn + 1} : Tick(d)

Spec == Init /\ [][Next]_vars

\* concurrent registrations with every registration body, over a store
\* that other clients delete from
NextSignUp ==
    \/ \E p \in RegProcs, input \in SignUpInputs : SignUpUserInsert(p, input)
    \/ \E p \in RegProcs, input \in SessionSignUpInputs :
           SignUpUserInsertNoEntropy(p, input)
    \/ \E p \in RegProcs : SignUpUserCreateIndex(p)
    \/ \E p \in RegProcs : SignUpUserFindOne(p)
    \/ \E i \in 1..Len(users) : DeleteAccount(i)

SpecSignUp == Init /\ [][NextSignUp]_vars

\* a request behind the middleware with every header and cookie, beside
\* a login and another request behind the middleware, over a store that
\* other clients delete from, while time passes
NextMiddleware ==
    \/ \E input \in OneSignUp : SignUpUserInsert(1, input)
    \/ SignUpUserCreateIndex(1)
    \/ SignUpUserFindOne(1)
    \/ SignInUserBind(1, "a@x.com", "secret123")
    \/ SignInUserFindUserByEmail(1)
    \/ SignInUserCreateAccessToken(1)
    \/ SignInUserCreateRefreshToken(1)
    \/ \E t \in issued : GetMeRequest(2, Bearer(Space, t), NoCookie)
    \/ \E r \in MwRequests : GetMeRequest(3, r.header, r.cookie)
    \/ \E p \in {2, 3} : DeserializeUserValidateToken(p)
    \/ \E p \in {2, 3} : DeserializeUserFindUserById(p)
    \/ \E p \in {2, 3} : GetMeHandler(p)
    \/ \E p \in ReqProcs : LoadConfigSetUp(p)
    \/ \E p \in ReqProcs : LoadConfigGetConfigFile(p)
    \/ \E p \in ReqProcs : LoadConfigFindConfigFile(p)
    \/ \E p \in ReqProcs : LoadConfigSetConfigFile(p)
    \/ \E p \in ReqProcs : LoadConfigReturnConfigFile(p)
    \/ \E p \in ReqProcs : LoadConfigReadFile(p)
    \/ \E p \in ReqProcs : LoadConfigStoreConfig(p)
    \/ \E p \in ReqProcs : LoadConfigUnmarshal(p)
    \/ \E i \in 1..Len(users) : DeleteAccount(i)
    \/ Tick(AccessTokenExpiredIn + 1)

SpecMiddleware == Init /\ [][NextMiddleware]_vars

\* a login with every identifier and password, beside two registrations,
\* over a store that other clients delete from, while time passes
NextLogin ==
    \/ \E p \in RegProcs, input \in MatchingSignUpInputs :
           SignUpUserInsert(p, input)
    \/ \E p \in RegProcs : SignUpUserCreateIndex(p)
    \/ \E p \in RegProcs : SignUpUserFindOne(p)
    \/ \E email \in Emails, password \in Passwords \cup {""} :
           SignInUserBind(1, email, password)
    \/ SignInUserFindUserByEmail(1)
    \/ SignInUserCreateAccessToken(1)
    \/ SignInUserCreateRefreshToken(1)
    \/ \E p \in ReqProcs : LoadConfigSetUp(p)
    \/ \E p \in ReqProcs : LoadConfigGetConfigFile(p)
    \/ \E p \in ReqProcs : LoadConfigFindConfigFile(p)
    \/ \E p \in ReqProcs : LoadConfigSetConfigFile(p)
    \/ \E p \in ReqProcs : LoadConfigReturnConfigFile(p)
    \/ \E p \in ReqProcs : LoadConfigReadFile(p)
    \/ \E p \in ReqProcs : LoadConfigStoreConfig(p)
    \/ \E p \in ReqProcs : LoadConfigUnmarshal(p)
    \/ \E i \in 1..Len(users) : DeleteAccount(i)
    \/ Tick(1)

SpecLogin == Init /\ [][NextLogin]_vars

\* two concurrent requests to GET /users/me, beside a login, over a store
\* that other clients delete from
NextGetMe ==
    \/ \E input \in OneSignUp : SignUpUserInsert(1, input)
    \/ SignUpUserCreateIndex(1)
    \/ SignUpUserFindOne(1)
    \/ SignInUserBind(1, "a@x.com", "secret123")
    \/ SignInUserFindUserByEmail(1)
    \/ SignInUserCreateAccessToken(1)
    \/ SignInUserCreateRefreshToken(1)
    \/ \E p \in {2, 3}, r \in SessionRequests :
           GetMeRequest(p, r.header, r.cookie)
    \/ \E p \in {2, 3} : DeserializeUserValidateToken(p)
    \/ \E p \in {2, 3} : DeserializeUserFindUserById(p)
    \/ \E p \in {2, 3} : GetMeHandler(p)
    \/ \E p \in ReqProcs : LoadConfigSetUp(p)
    \/ \E p \in ReqProcs : LoadConfigGetConfigFile(p)
    \/ \E p \in ReqProcs : LoadConfigFindConfigFile(p)
    \/ \E p \in ReqProcs : LoadConfigSetConfigFile(p)
    \/ \E p \in ReqProcs : LoadConfigReturnConfigFile(p)
    \/ \E p \in ReqProcs : LoadConfigReadFile(p)
    \/ \E p \in ReqProcs : LoadConfigStoreConfig(p)
    \/ \E p \in ReqProcs : LoadConfigUnmarshal(p)
    \/ \E i \in 1..Len(users) : DeleteAccount(i)

SpecGetMe == Init /\ [][NextGetMe]_vars

\* a login and a refresh while an operator rewrites app.env or takes it
\* away
NextConfig ==
    \/ \E input \in OneSignUp : SignUpUserInsert(1, input)
    \/ SignUpUserCreateIndex(1)
    \/ SignUpUserFindOne(1)
    \/ SignInUserBind(1, "a@x.com", "secret123")
    \/ SignInUserFindUserByEmail(1)
    \/ SignInUserCreateAccessToken(1)
    \/ SignInUserCreateRefreshToken(1)
    \/ \E c \in RefreshCookies : RefreshAccessTokenCookie(2, c)
    \/ RefreshAccessTokenValidateToken(2)
    \/ RefreshAccessTokenFindUserById(2)
    \/ RefreshAccessTokenCreateToken(2)
    \/ \E p \in ReqProcs : LoadConfigSetUp(p)
    \/ \E p \in ReqProcs : LoadConfigGetConfigFile(p)
    \/ \E p \in ReqProcs : LoadConfigFindConfigFile(p)
    \/ \E p \in ReqProcs : LoadConfigSetConfigFile(p)
    \/ \E p \in ReqProcs : LoadConfigReturnConfigFile(p)
    \/ \E p \in ReqProcs : LoadConfigReadFile(p)
    \/ \E p \in ReqProcs : LoadConfigStoreConfig(p)
    \/ \E p \in ReqProcs : LoadConfigUnmarshal(p)
    \/ \E env \in AppEnvs \cup {NoAppEnv} : ChangeConfig(env)

SpecConfig == Init /\ [][NextConfig]_vars

\* two concurrent requests behind the middleware inside config.LoadConfig
\* while an operator rewrites app.env or takes it away
NextLoad ==
    \/ \E p \in {1, 2} : GetMeRequest(p, Runes("Bearer garbage"), NoCookie)
    \/ \E p \in {1, 2} : DeserializeUserValidateToken(p)
    \/ \E p \in ReqProcs : LoadConfigSetUp(p)
    \/ \E p \in ReqProcs : LoadConfigGetConfigFile(p)
    \/ \E p \in ReqProcs : LoadConfigFindConfigFile(p)
    \/ \E p \in ReqProcs : LoadConfigSetConfigFile(p)
    \/ \E p \in ReqProcs : LoadConfigReturnConfigFile(p)
    \/ \E p \in ReqProcs : LoadConfigReadFile(p)
    \/ \E p \in ReqProcs : LoadConfigStoreConfig(p)
    \/ \E p \in ReqProcs : LoadConfigUnmarshal(p)
    \/ \E env \in AppEnvs \cup {NoAppEnv} : ChangeConfig(env)

SpecLoad == Init /\ [][NextLoad]_vars

\* the requests that are no registration: a login, a refresh and a
\* request to GET /users/me, beside a registration
NextCore ==
    \/ \E input \in OneSignUp : SignUpUserInsert(1, input)
    \/ SignUpUserCreateIndex(1)
    \/ SignUpUserFindOne(1)
    \/ \E email \in {"a@x.com", "A@x.com"}, password \in Passwords :
           SignInUserBind(1, email, password)
    \/ SignInUserFindUserByEmail(1)
    \/ SignInUserCreateAccessToken(1)
    \/ SignInUserCreateRefreshToken(1)
    \/ \E c \in RefreshCookies : RefreshAccessTokenCookie(2, c)
    \/ RefreshAccessTokenValidateToken(2)
    \/ RefreshAccessTokenFindUserById(2)
    \/ RefreshAccessTokenCreateToken(2)
    \/ \E r \in SessionRequests : GetMeRequest(3, r.header, r.cookie)
    \/ DeserializeUserValidateToken(3)
    \/ DeserializeUserFindUserById(3)
    \/ GetMeHandler(3)
    \/ \E p \in ReqProcs : LoadConfigSetUp(p)
    \/ \E p \in ReqProcs : LoadConfigGetConfigFile(p)
    \/ \E p \in ReqProcs : LoadConfigFindConfigFile(p)
    \/ \E p \in ReqProcs : LoadConfigSetConfigFile(p)
    \/ \E p \in ReqProcs : LoadConfigReturnConfigFile(p)
    \/ \E p \in ReqProcs : LoadConfigReadFile(p)
    \/ \E p \in ReqProcs : LoadConfigStoreConfig(p)
    \/ \E p \in ReqProcs : LoadConfigUnmarshal(p)

SpecCore == Init /\ [][NextCore]_vars

\* a login and a logout, then a request to GET /users/me or a refresh with
\* a token the account held at its logout, beside another client's request
\* to GET /users/me, while time passes
NextLogout ==
    \/ \E input \in OneSignUp : SignUpUserInsert(1, input)
    \/ SignUpUserCreateIndex(1)
    \/ SignUpUserFindOne(1)
    \/ SignInUserBind(1, "a@x.com", "secret123")
    \/ SignInUserFindUserByEmail(1)
    \/ SignInUserCreateAccessToken(1)
    \/ SignInUserCreateRefreshToken(1)
    \/ \E r \in LogoutRequests : LogoutUserRequest(2, r.header, r.cookie)
    \/ LogoutUserHandler(2)
    \/ \E t \in loggedOut : GetMeRequest(3, Bearer(Space, t), NoCookie)
    \/ \E t \in loggedOut : RefreshAccessTokenCookie(3, Cookie(t))
    \/ RefreshAccessTokenValidateToken(3)
    \/ RefreshAccessTokenFindUserById(3)
    \/ RefreshAccessTokenCreateToken(3)
    \/ \E t \in loggedOut : GetMeRequest(4, Bearer(Space, t), NoCookie)
    \/ \E p \in {2, 3, 4} : DeserializeUserValidateToken(p)
    \/ \E p \in {2, 3, 4} : DeserializeUserFindUserById(p)
    \/ \E p \in {3, 4} : GetMeHandler(p)
    \/ \E p \in ReqProcs : LoadConfigSetUp(p)
    \/ \E p \in ReqProcs : LoadConfigGetConfigFile(p)
    \/ \E p \in ReqProcs : LoadConfigFindConfigFile(p)
    \/ \E p \in ReqProcs : LoadConfigSetConfigFile(p)
    \/ \E p \in ReqProcs : LoadConfigReturnConfigFile(p)
    \/ \E p \in ReqProcs : LoadConfigReadFile(p)
    \/ \E p \in ReqProcs : LoadConfigStoreConfig(p)
    \/ \E p \in ReqProcs : LoadConfigUnmarshal(p)
    \/ \E i \in 1..Len(users) : DeleteAccount(i)
    \/ Tick(1)

SpecLogout == Init /\ [][NextLogout]_vars

----------------------------------------------------------------------------
(* Properties of the middleware *)

MwRoutes == {"GetMe", "LogoutUser"}

\* the requests whose run of the middleware has ended
MwReturned == {p \in ReqProcs : ctxs[p].route \in MwRoutes
                                  /\ ctxs[p].mw.outcome # ""}

\* the token verifies under the access public key at this time
TokenVerifiesAt(token, clock) ==
    token # "" /\ ValidateToken(token, AccessTokenPublicKey, clock).err = ""

\* request p presented this token as its candidate
Presents(p, token) == ctxs[p].mw.token = Runes(token)

\* the candidate token of request p verified when ValidateToken read the
\* clock for it
Verified(p) ==
    /\ ctxs[p].validated
    /\ ValidateCandidate(ctxs[p].mw.token, AccessTokenPublicKey,
                         ctxs[p].validatedAt).err = ""

\* ... and the account of its subject was in the store when FindUserById
\* read the store for it
SubjectFound(p) == ctxs[p].lookedUp /\ ctxs[p].stored

\* C1: the handler behind DeserializeUser runs only if a token was
\* extracted, ValidateToken accepted it under the access public key and
\* FindUserById found its subject; every rejection answers 401 and the
\* handler behind the middleware does not run for that request.
C1_RejectionShortCircuits ==
    \A p \in ReqProcs :
        /\ (ctxs[p].route \in MwRoutes /\ ctxs[p].res # NoResponse)
              => ctxs[p].mw.nextRan
        /\ p \in MwReturned =>
              /\ ctxs[p].mw.nextRan =>
                    /\ ctxs[p].mw.outcome = "Authenticated"
                    /\ Verified(p)
                    /\ SubjectFound(p)
              /\ ctxs[p].mw.outcome = "Rejected" =>
                    /\ ctxs[p].mw.status = StatusUnauthorized
                    /\ ~ctxs[p].mw.nextRan
                    /\ ctxs[p].pc = "done"
                    /\ ctxs[p].res = NoResponse
              /\ (/\ ctxs[p].mw.outcome # "Panicked"
                  /\ ~(Verified(p) /\ SubjectFound(p)))
                    => ctxs[p].mw.outcome = "Rejected"

\* a request rejected because its token had expired when ValidateToken
\* read the clock
C1_Witness ==
    \E p \in MwReturned :
        /\ ctxs[p].mw.outcome = "Rejected"
        /\ ctxs[p].mw.validateErr = "TokenExpired"
        /\ \E t \in issued :
              Presents(p, t) /\ ctxs[p].validatedAt > TokenExpiresAt(t)
        /\ ctxs[p].pc = "done"

\* C2: whatever the Authorization header and the cookies, DeserializeUser
\* ends in Authenticated or Rejected and never panics.
C2_NeverPanics ==
    \A p \in MwReturned : ctxs[p].mw.outcome \in {"Authenticated", "Rejected"}

\* the first of the words of the header, which white space separates, is
\* the scheme Bearer
BearerScheme(header) ==
    Len(Fields(header)) >= 1 /\ Fields(header)[1] = Runes("Bearer")

\* the runes of the token an Authorization header with scheme Bearer
\* carries (none: there is no token)
BearerToken(header) ==
    IF BearerScheme(header) /\ Len(Fields(header)) >= 2
    THEN Fields(header)[2] ELSE << >>

CookieToken(cookie) == IF cookie.present THEN Runes(cookie.value) ELSE << >>

\* C9: the candidate token is the one of the Bearer header whenever there
\* is one, also when the access_token cookie is present; it is the cookie's
\* only when there is no Bearer header; when neither yields a token the
\* request is rejected as not logged in and neither ValidateToken nor
\* FindUserById is called.
C9_TokenSource ==
    \A p \in ReqProcs :
        (ctxs[p].route \in MwRoutes /\ ctxs[p].pc # "idle") =>
            /\ BearerToken(ctxs[p].req.header) # << >>
                  => ctxs[p].mw.token = BearerToken(ctxs[p].req.header)
            /\ ~BearerScheme(ctxs[p].req.header)
                  => ctxs[p].mw.token = CookieToken(ctxs[p].req.cookie)
            /\ (/\ BearerToken(ctxs[p].req.header) = << >>
                /\ CookieToken(ctxs[p].req.cookie) = << >>)
                  => /\ ctxs[p].mw.outcome = "Rejected"
                     /\ ctxs[p].mw.status = StatusUnauthorized
                     /\ ctxs[p].mw.message = "You are not logged in!"
                     /\ ~ctxs[p].mw.validateCalled
                     /\ ~ctxs[p].mw.findCalled
                     /\ ~ctxs[p].validated
                     /\ ~ctxs[p].lookedUp

\* C10: a request whose access token verifies but whose subject has no
\* account in the store at the time of the lookup is rejected: currentUser
\* is not set and the handler behind the middleware does not run.
C10_DeletedSubjectRejected ==
    \A p \in ReqProcs :
        (/\ ctxs[p].route \in MwRoutes
         /\ Verified(p)
         /\ ctxs[p].lookedUp /\ ~ctxs[p].stored)
            => /\ ctxs[p].mw.outcome = "Rejected"
               /\ ctxs[p].mw.status = StatusUnauthorized
               /\ ~ctxs[p].mw.currentUserSet
               /\ ~ctxs[p].mw.nextRan
               /\ ctxs[p].pc = "done"
               /\ ctxs[p].res = NoResponse

\* a request with a token that was issued to an account which was deleted
\* before FindUserById read the store, some of them after ValidateToken
\* had accepted the token
C10_Witness ==
    \E p \in ReqProcs :
        /\ ctxs[p].route \in MwRoutes
        /\ \E t \in issued : Presents(p, t)
        /\ Verified(p)
        /\ ctxs[p].lookedUp /\ ~ctxs[p].stored
        /\ ctxs[p].mw.findCalled
        /\ ctxs[p].mw.outcome = "Rejected"

----------------------------------------------------------------------------
(* Properties of registration *)

Started(p) == reg[p].pc # "idle"
Finished(p) == reg[p].pc = "done"

Persisted(p) == reg[p].insertedID # NilObjectID

\* the statuses the handler wrote for request p
StatusesWritten(p) == {reg[p].writes[i].status : i \in 1..Len(reg[p].writes)}

\* C3: a registration whose password differs from confirm_password fails
\* as a password mismatch: authService.SignUpUser is not invoked and no
\* account is persisted for that request.
C3_MismatchStopsRegistration ==
    \A p \in RegProcs :
        Started(p) /\ reg[p].input.password # reg[p].input.confirm
            => ~reg[p].serviceCalled /\ ~Persisted(p)

InStore(p) == Persisted(p) /\ reg[p].insertedID \in StoredIds

\* an earlier registration of this identifier has been answered 201 and its
\* account is in the store
AlreadyRegistered(email) ==
    \E q \in RegProcs :
        Registered(q) /\ InStore(q) /\ ToLower(reg[q].input.email) = ToLower(email)

\* C4: registering an email that is already persisted (the second of two
\* registrations in sequence) fails as a duplicate identifier, which the
\* controller answers with 409 Conflict and not with the 502 of other
\* storage failures.
C4_DuplicateIsConflict ==
    [][\A p \in RegProcs :
          /\ ~Started(p) /\ Started(p)'
          /\ SignUpBindOk(reg[p].input')
          /\ AlreadyRegistered(reg[p].input.email')
          => /\ Finished(p)'
             /\ ~Persisted(p)'
             /\ StatusConflict \in StatusesWritten(p)'
             /\ StatusBadGateway \notin StatusesWritten(p)']_vars

\* C5: under any interleaving of concurrent SignUpUser calls, no two
\* persisted accounts have the same lower-cased email.
C5_UniqueEmails ==
    \A i, j \in 1..Len(users) :
        i # j => ToLower(users[i].email) # ToLower(users[j].email)


----------------------------------------------------------------------------
(* Properties of login *)

\* the SignInUser requests that have been answered
SignInDone == {p \in ReqProcs : ctxs[p].route = "SignInUser"
                                  /\ ctxs[p].pc = "done"}

\* no account has this identifier (lower-cased)
NoAccount(email) ==
    \A i \in 1..Len(users) : users[i].email # ToLower(email)

\* the account login resolves the identifier to exists and its stored hash
\* is not the hash of the candidate
WrongPassword(email, password) ==
    /\ ~NoAccount(email)
    /\ VerifyPassword(FindUserByEmail(users, email).user.password, password) # ""

\* FindUserByEmail found no account for request p
FoundNoAccount(p) == ctxs[p].lookedUp /\ ctxs[p].user = EmptyDBResponse

\* FindUserByEmail found an account for request p whose stored hash is not
\* the hash of the request's password
FoundWrongPassword(p) ==
    /\ ctxs[p].lookedUp /\ ctxs[p].user # EmptyDBResponse
    /\ VerifyPassword(ctxs[p].user.password, ctxs[p].req.password) # ""

\* what the caller sees of a login response
Visible(res) == <<res.status, res.message, res.access_token, res.cookies>>

\* the response of a login with these credentials now
SignInUserNow(email, password) ==
    SignInUser(email, password, users, StartupAppEnv, now, now)

\* C6: the response of SignInUser for an email with no account is the same
\* (status code and message) as for an existing account with a wrong
\* password.
C6_LoginFailuresAlike ==
    \A p \in SignInDone :
        \A e \in Emails, q \in Passwords :
            (\/ FoundNoAccount(p) /\ WrongPassword(e, q)
             \/ FoundWrongPassword(p) /\ NoAccount(e))
                => Visible(ctxs[p].res) = Visible(SignInUserNow(e, q))

\* a login for an unknown email has been answered, and a login with a
\* wrong password for another, existing account is possible
C6_Witness ==
    \E p \in SignInDone :
        /\ FoundNoAccount(p)
        /\ ctxs[p].res.status = StatusBadRequest
        /\ \E e2 \in Emails, q2 \in Passwords : WrongPassword(e2, q2)

CookieValue(res, name) ==
    LET S == {i \in 1..Len(res.cookies) : res.cookies[i].name = name}
    IN  IF S = {} THEN "" ELSE res.cookies[CHOOSE i \in S : TRUE].value

\* DeserializeUser lets a request with this Bearer token through, now, and
\* this is the record of its run
DeserializeUserNow(token) ==
    DeserializeUser(Bearer(Space, token), FALSE, "", StartupAppEnv, now, users)

\* res is a 200 whose access token is signed with the access private key
\* and whose refresh_token cookie is signed with the refresh private key,
\* both with subject id, and DeserializeUser, for as long as the access
\* token has not expired and the account is in the store, resolves the
\* access token to the account with that id
GoodLogin(res, id) ==
    /\ res.status = StatusOK
    /\ WellFormedToken(res.access_token)
    /\ TokenSigner(res.access_token) = KeyPairOf(AccessTokenPrivateKey)
    /\ ObjectIDFromHex(TokenSubject(res.access_token)) = id
    /\ WellFormedToken(CookieValue(res, "refresh_token"))
    /\ TokenSigner(CookieValue(res, "refresh_token"))
            = KeyPairOf(RefreshTokenPrivateKey)
    /\ ObjectIDFromHex(TokenSubject(CookieValue(res, "refresh_token"))) = id
    /\ (now <= TokenExpiresAt(res.access_token) /\ id \in StoredIds) =>
          LET m == DeserializeUserNow(res.access_token)
          IN  /\ m.outcome = "Authenticated"
              /\ m.nextRan
              /\ m.currentUserSet
              /\ m.currentUser.id = id

\* C7: once an account is registered, SignInUser with its identifier and
\* the correct password answers 200 with an access token signed with the
\* access private key and sets a refresh token signed with the refresh
\* private key, both with the account's id as subject, and DeserializeUser
\* accepts the access token and resolves it to that account.
C7_LoginAfterRegistration ==
    /\ \A q \in RegisteredAccounts :
          GoodLogin(SignInUserNow(reg[q].input.email, reg[q].input.password),
                    reg[q].insertedID)
    /\ \A p \in SignInDone :
          \A q \in ctxs[p].registered :
              (/\ ctxs[p].req.email = reg[q].input.email
               /\ ctxs[p].req.password = reg[q].input.password)
                  => GoodLogin(ctxs[p].res, reg[q].insertedID)

IssuesTokens(res) ==
    res.status = StatusOK \/ res.access_token # "" \/ res.cookies # << >>

\* C8: after register(e, p), SignInUser(e, q) issues tokens if and only if
\* q = p; a candidate password other than the registered one yields no
\* token and no cookie.
C8_TokensOnlyForThePassword ==
    /\ \A q \in RegisteredAccounts :
          \A pw \in Passwords :
              IssuesTokens(SignInUserNow(reg[q].input.email, pw))
                  <=> pw = reg[q].input.password
    /\ \A p \in SignInDone :
          \A q \in ctxs[p].registered :
              ToLower(ctxs[p].req.email) = ToLower(reg[q].input.email)
                  => (IssuesTokens(ctxs[p].res)
                          <=> ctxs[p].req.password = reg[q].input.password)

----------------------------------------------------------------------------
(* Properties of the routes behind the middleware *)

\* the token a request presents: the Bearer header's, or else the cookie's
CandidateToken(req) ==
    IF BearerScheme(req.header) THEN BearerToken(req.header)
    ELSE CookieToken(req.cookie)

\* the id that is the subject of the token request p presented
SubjectOf(p) ==
    ObjectIDFromHex(TokenSubject(String(CandidateToken(ctxs[p].req))))

\* C11: whenever the handler behind DeserializeUser runs for a request,
\* that request's context holds under currentUser the account whose id is
\* the subject of the access token verified for that request, whatever
\* other requests and deletions happen in between; GetMe's MustGet finds
\* the key and GetMe answers 200 with that account.
C11_CurrentUserIsTheSubject ==
    \A p \in ReqProcs :
        ctxs[p].route \in MwRoutes =>
            /\ ctxs[p].mw.nextRan =>
                  /\ IsText(CandidateToken(ctxs[p].req))
                  /\ WellFormedToken(String(CandidateToken(ctxs[p].req)))
                  /\ TokenSigner(String(CandidateToken(ctxs[p].req)))
                        = KeyPairOf(AccessTokenPublicKey)
                  /\ Verified(p)
                  /\ ctxs[p].mw.currentUserSet
                  /\ ctxs[p].mw.currentUser.id = SubjectOf(p)
                  /\ ctxs[p].mw.currentUser.id # NilObjectID
            /\ (/\ ctxs[p].route = "GetMe"
                /\ ctxs[p].pc = "done" /\ ctxs[p].mw.nextRan) =>
                  /\ ~ctxs[p].res.panicked
                  /\ ctxs[p].res.status = StatusOK
                  /\ ctxs[p].res.user.id = SubjectOf(p)
            /\ (ctxs[p].pc = "done" /\ ~ctxs[p].mw.nextRan) =>
                  ctxs[p].res = NoResponse

\* GetMe has answered one request with an account that was deleted after
\* the middleware read it, while the handler of another request had yet
\* to run
C11_Witness ==
    \E p, q \in ReqProcs :
        /\ p # q
        /\ ctxs[p].route = "GetMe" /\ ctxs[q].route = "GetMe"
        /\ ctxs[p].pc = "done"
        /\ ctxs[p].res.status = StatusOK
        /\ ctxs[p].res.user.id \notin StoredIds
        /\ ctxs[q].pc = "Next"

\* what is wrong with a token presented as access token at this time
TokenDefect(token, clock) ==
    IF ~WellFormedToken(token) THEN "malformed"
    ELSE IF TokenSigner(token) # KeyPairOf(AccessTokenPublicKey) THEN "forged"
    ELSE IF clock > TokenExpiresAt(token) THEN "expired"
    ELSE "none"

\* ... and with a candidate token given by its runes
CandidateDefect(token, clock) ==
    IF IsText(token) THEN TokenDefect(String(token), clock) ELSE "malformed"

\* C17: when DeserializeUser rejects a token, the message of the 401 tells
\* an expired token from one with an invalid signature and from a
\* malformed one: tokens with different defects get different messages.
C17_RejectionReasonsDistinct ==
    \A p \in ReqProcs :
        (/\ ctxs[p].route \in MwRoutes
         /\ ctxs[p].validated
         /\ CandidateDefect(ctxs[p].mw.token, ctxs[p].validatedAt) # "none")
            => /\ ctxs[p].mw.outcome = "Rejected"
               /\ ctxs[p].mw.status = StatusUnauthorized
               /\ \A t \in TokensOnWire :
                     TokenDefect(t, ctxs[p].validatedAt)
                        \notin {"none", CandidateDefect(ctxs[p].mw.token,
                                                        ctxs[p].validatedAt)}
                        => DeserializeUser(Bearer(Space, t), FALSE, "",
                                           StartupAppEnv, ctxs[p].validatedAt,
                                           users).message
                              # ctxs[p].mw.message

----------------------------------------------------------------------------
(* Properties of refresh and logout *)

\* the RefreshAccessToken requests that have been answered
RefreshDone == {p \in ReqProcs : ctxs[p].route = "RefreshAccessToken"
                                   /\ ctxs[p].pc = "done"}

CookieNames(res) == {res.cookies[i].name : i \in 1..Len(res.cookies)}

\* the token verifies under the refresh public key at this time
RefreshTokenVerifiesAt(token, clock) ==
    ValidateToken(token, RefreshTokenPublicKey, clock).err = ""

\* the token names as its subject the id of an account in the store
TokenSubjectStored(token) ==
    /\ WellFormedToken(token)
    /\ ObjectIDFromHex(TokenSubject(token)) \in StoredIds

\* nothing was minted and no cookie was set
NothingIssued(res) == res.access_token = "" /\ res.cookies = << >>

\* the response of a refresh with this refresh_token cookie now
RefreshAccessTokenNow(token) ==
    RefreshAccessToken(TRUE, token, StartupAppEnv, now, users, now)

\* C12: a successful RefreshAccessToken sets the access_token and
\* logged_in cookies and no other, the access token being a new token for
\* the subject of the refresh token, signed with the access private key;
\* a refresh token that has been used stays usable, without being set
\* again, for as long as it verifies and its account exists.
C12_RefreshMintsAccessOnly ==
    /\ \A p \in RefreshDone :
          ctxs[p].res.status = StatusOK =>
              /\ Len(ctxs[p].res.cookies) = 2
              /\ CookieNames(ctxs[p].res) = {"access_token", "logged_in"}
              /\ CookieValue(ctxs[p].res, "access_token")
                    = ctxs[p].res.access_token
              /\ WellFormedToken(ctxs[p].res.access_token)
              /\ TokenSigner(ctxs[p].res.access_token)
                    = KeyPairOf(AccessTokenPrivateKey)
              /\ TokenSubject(ctxs[p].res.access_token)
                    = TokenSubject(ctxs[p].req.cookie.value)
              /\ TokenIssuedAt(ctxs[p].res.access_token) >= ctxs[p].validatedAt
              /\ ctxs[p].req.cookie.value \in refreshed
    /\ \A t \in refreshed :
          (RefreshTokenVerifiesAt(t, now) /\ TokenSubjectStored(t)) =>
              /\ RefreshAccessTokenNow(t).status = StatusOK
              /\ "refresh_token" \notin CookieNames(RefreshAccessTokenNow(t))

\* a refresh token has yielded, later than the login that issued it, an
\* access token, and can be used again
C12_Witness ==
    \E p \in RefreshDone :
        /\ ctxs[p].res.status = StatusOK
        /\ ctxs[p].req.cookie.value \in issued
        /\ TokenIssuedAt(ctxs[p].res.access_token)
              > TokenIssuedAt(ctxs[p].req.cookie.value)
        /\ RefreshAccessTokenNow(ctxs[p].req.cookie.value).status = StatusOK
        /\ now > TokenIssuedAt(ctxs[p].res.access_token)

\* C13: when the refresh_token cookie is missing, or does not pass
\* ValidateToken under the refresh public key (expired or invalid),
\* RefreshAccessToken answers 403, mints no access token and sets no
\* cookie.
C13_BadRefreshTokenForbidden ==
    \A p \in ReqProcs :
        (/\ ctxs[p].route = "RefreshAccessToken"
         /\ \/ ~ctxs[p].req.cookie.present
            \/ /\ ctxs[p].validated
               /\ ~RefreshTokenVerifiesAt(ctxs[p].req.cookie.value,
                                          ctxs[p].validatedAt))
            => /\ ctxs[p].pc = "done"
               /\ ctxs[p].res.status = StatusForbidden
               /\ NothingIssued(ctxs[p].res)
               /\ ~ctxs[p].lookedUp
               /\ ctxs[p].accessToken = ""

\* a refresh was refused because the refresh token had expired when
\* ValidateToken read the clock
C13_Witness ==
    \E p \in RefreshDone :
        /\ ctxs[p].req.cookie.value \in issued
        /\ TokenSigner(ctxs[p].req.cookie.value)
              = KeyPairOf(RefreshTokenPublicKey)
        /\ ctxs[p].validatedAt > TokenExpiresAt(ctxs[p].req.cookie.value)
        /\ ctxs[p].res.status = StatusForbidden

\* request p takes the step in which RefreshAccessToken mints
RefreshMints(p) ==
    /\ ctxs[p].route = "RefreshAccessToken"
    /\ ctxs[p].pc = "CreateToken"
    /\ ctxs'[p].pc = "done"
    /\ ctxs'[p].res.status = StatusOK

\* C14: once an account is absent from the store, RefreshAccessToken never
\* mints an access token for its subject again: a request that mints
\* finds the account of its subject in the store when it mints, and a
\* request whose lookup does not find the account answers 403 and mints
\* nothing.
C14_DeletedAccountNotRefreshed ==
    [][\A p \in ReqProcs :
          /\ RefreshMints(p) => ObjectIDFromHex(ctxs[p].sub) \in StoredIds
          /\ (/\ ctxs'[p].route = "RefreshAccessToken"
              /\ ctxs'[p].lookedUp /\ ~ctxs'[p].stored)
                => /\ ctxs'[p].pc = "done"
                   /\ ctxs'[p].res.status = StatusForbidden
                   /\ NothingIssued(ctxs'[p].res)]_vars

\* an access token: one signed with the access private key
IsAccessToken(token) ==
    WellFormedToken(token) /\ TokenSigner(token) = KeyPairOf(AccessTokenPrivateKey)

\* a refresh token whose time of expiry has passed at this time
IsExpiredRefreshToken(token, clock) ==
    /\ WellFormedToken(token)
    /\ TokenSigner(token) = KeyPairOf(RefreshTokenPrivateKey)
    /\ clock > TokenExpiresAt(token)

\* status and message of a refresh with this cookie at this time
RefreshOutcomeAt(token, clock) ==
    LET e == RefreshAccessToken(TRUE, token, StartupAppEnv, clock, users, clock)
    IN  <<e.status, e.message>>

\* C15: an access token presented in the refresh_token cookie is refused,
\* and what the caller gets (status and message) differs from what an
\* expired refresh token gets.
C15_WrongClassDistinctFromExpired ==
    \A p \in RefreshDone :
        ctxs[p].req.cookie.present =>
            /\ IsAccessToken(ctxs[p].req.cookie.value) =>
                  /\ ctxs[p].res.status # StatusOK
                  /\ NothingIssued(ctxs[p].res)
                  /\ \A t \in issued :
                        IsExpiredRefreshToken(t, ctxs[p].validatedAt) =>
                            RefreshOutcomeAt(t, ctxs[p].validatedAt)
                              # <<ctxs[p].res.status, ctxs[p].res.message>>
            /\ IsExpiredRefreshToken(ctxs[p].req.cookie.value,
                                     ctxs[p].validatedAt) =>
                  \A t \in issued :
                        IsAccessToken(t) =>
                            RefreshOutcomeAt(t, ctxs[p].validatedAt)
                              # <<ctxs[p].res.status, ctxs[p].res.message>>

\* the requests that arrived after LogoutUser had answered the account of
\* the token they present
AfterLogout == {p \in ReqProcs : ctxs[p].afterLogout}

\* C16: LogoutUser invalidates nothing.  A request behind the middleware
\* that arrives after the logout with an access token the account held at
\* its logout, not expired when ValidateToken reads the clock, passes
\* ValidateToken and, its account being in the store, is let through to
\* the handler; a refresh that arrives after the logout with the refresh
\* token the account held, not expired, is answered 200 with a new access
\* token as long as the account is in the store.
C16_LogoutKeepsTokensValid ==
    \A p \in AfterLogout :
        /\ (/\ ctxs[p].route \in MwRoutes
            /\ Verified(p))
              => /\ ctxs[p].mw.validateErr = ""
                 /\ SubjectFound(p)
                      => /\ ctxs[p].mw.outcome = "Authenticated"
                         /\ ctxs[p].mw.nextRan
        /\ (/\ p \in RefreshDone
            /\ ctxs[p].validated
            /\ RefreshTokenVerifiesAt(ctxs[p].req.cookie.value,
                                      ctxs[p].validatedAt))
              => /\ ctxs[p].lookedUp
                 /\ ctxs[p].stored
                      => /\ ctxs[p].res.status = StatusOK
                         /\ IsAccessToken(ctxs[p].res.access_token)
                         /\ ctxs[p].res.access_token \in issued

----------------------------------------------------------------------------
(* Properties of the configuration *)

\* the token is signed with this startup private key and lives this long
SignedAtStartup(token, privateKey, ttl) ==
    /\ WellFormedToken(token)
    /\ TokenSigner(token) = KeyPairOf(privateKey)
    /\ TokenExpiresAt(token) = TokenIssuedAt(token) + ttl

\* C18: every request signs and verifies with the keys and durations
\* app.env held when the process started, whatever has been written to
\* app.env since: SignInUser and RefreshAccessToken sign with the startup
\* private keys and TTLs and set cookies with the startup max-ages,
\* RefreshAccessToken verifies under the startup refresh public key and
\* DeserializeUser under the startup access public key.
C18_ConfigLoadedOnce ==
    \A p \in ReqProcs :
        /\ (p \in SignInDone /\ ctxs[p].res.status = StatusOK) =>
              /\ SignedAtStartup(ctxs[p].res.access_token,
                                 AccessTokenPrivateKey, AccessTokenExpiredIn)
              /\ SignedAtStartup(CookieValue(ctxs[p].res, "refresh_token"),
                                 RefreshTokenPrivateKey, RefreshTokenExpiredIn)
              /\ ctxs[p].res.cookies[1].maxAge = AccessTokenMaxAge * 60
        /\ (p \in RefreshDone /\ ctxs[p].validated) =>
              /\ ctxs[p].res.status = StatusOK
                    <=> /\ RefreshTokenVerifiesAt(ctxs[p].req.cookie.value,
                                                  ctxs[p].validatedAt)
                        /\ ctxs[p].lookedUp /\ ctxs[p].stored
              /\ ctxs[p].res.status = StatusOK
                    => SignedAtStartup(ctxs[p].res.access_token,
                                       AccessTokenPrivateKey,
                                       AccessTokenExpiredIn)
        /\ (ctxs[p].route \in MwRoutes /\ ctxs[p].mw.validateCalled) =>
              ctxs[p].mw.validateErr
                = ValidateCandidate(ctxs[p].mw.token, AccessTokenPublicKey,
                                    ctxs[p].validatedAt).err

----------------------------------------------------------------------------
(* Properties of the persisted accounts *)

\* the document request p inserted, as the store holds it
StoredBy(p) == FindOne(users, "id", reg[p].insertedID).doc

\* C19: every account in the store has role "user" and verified = true,
\* whatever role and verified the registration request supplied, and a
\* 201 reports the role "user".
C19_DefaultRoleAndVerified ==
    /\ \A i \in 1..Len(users) :
          users[i].role = "user" /\ users[i].verified = TRUE
    /\ \A p \in RegProcs :
          /\ InStore(p) => StoredBy(p).role = "user" /\ StoredBy(p).verified
          /\ Registered(p) =>
                reg[p].writes[Len(reg[p].writes)].user.role = "user"

\* a registration that supplied role "admin" and verified = false has been
\* answered 201 and its account is in the store
C19_Witness ==
    \E p \in RegProcs :
        /\ Registered(p) /\ InStore(p)
        /\ reg[p].input.role = "admin"
        /\ ~reg[p].input.verified


\* the identifiers that differ from email in the case of letters at most
CaseVariants(email) == {e \in Emails : ToLower(e) = ToLower(email)}

\* res is a 200 whose access token has this id as subject
LoginResolves(res, id) ==
    /\ res.status = StatusOK
    /\ WellFormedToken(res.access_token)
    /\ ObjectIDFromHex(TokenSubject(res.access_token)) = id

\* C20: the email of every account in the store is lower-cased, the
\* account of a registration holds the lower-cased identifier of the
\* request, and after a registration SignInUser with any case variant of
\* its identifier and its password succeeds for that same account.
C20_LowerCasedIdentifier ==
    /\ \A i \in 1..Len(users) : users[i].email = ToLower(users[i].email)
    /\ \A q \in RegProcs :
          /\ InStore(q) => StoredBy(q).email = ToLower(reg[q].input.email)
          /\ (Registered(q) /\ InStore(q)) =>
                \A e \in CaseVariants(reg[q].input.email) :
                    LoginResolves(SignInUserNow(e, reg[q].input.password),
                                  reg[q].insertedID)
    /\ \A p \in SignInDone :
          \A q \in ctxs[p].registered :
              (/\ ctxs[p].req.email \in CaseVariants(reg[q].input.email)
               /\ ctxs[p].req.password = reg[q].input.password)
                  => LoginResolves(ctxs[p].res, reg[q].insertedID)
----------------------------------------------------------------------------
(* Properties of the stored password *)

\* C21: the plaintext password is never stored: the password field of the
\* account a registration persisted is what HashPassword returned for the
\* submitted password, no account holds a submitted password as it was
\* sent, and no account holds a confirm_password.
C21_PasswordStoredHashed ==
    /\ \A i \in 1..Len(users) :
          /\ users[i].confirm_password = ""
          /\ \A in \in SignUpInputs :
                /\ users[i].password # NotAHash(in.password)
                /\ users[i].password # NotAHash(in.confirm)
    /\ \A p \in RegProcs :
          InStore(p) =>
              StoredBy(p).password
                  = HashPassword(reg[p].input.password, reg[p].salt).hash

\* a registration whose confirm_password differs from its password has
\* been answered 201 and its account, with a bcrypt hash, is in the store
C21_Witness ==
    \E p \in RegProcs :
        /\ Registered(p) /\ InStore(p)
        /\ reg[p].input.confirm # reg[p].input.password
        /\ StoredBy(p).password.alg = "bcrypt"
        /\ VerifyPassword(StoredBy(p).password, reg[p].input.password) = ""

\* C22: a hashing failure is fatal for the registration: when HashPassword
\* returns an error the request is answered with a 5xx status, no account
\* is persisted for it, and no account has an empty stored password.
C22_HashFailureIsFatal ==
    /\ \A p \in RegProcs :
          Started(p) /\ reg[p].hashErr # "" =>
              /\ ~Persisted(p)
              /\ Finished(p) =>
                    \A st \in StatusesWritten(p) : st >= StatusInternalServerError
    /\ \A i \in 1..Len(users) : users[i].password # NotAHash("")

----------------------------------------------------------------------------
(* Frame of the requests that are no registration *)

\* a step of SignInUser, RefreshAccessToken or DeserializeUser, of
\* config.LoadConfig called by one of them, or of GetMe
CoreStep == ctxs' # ctxs \/ loads' # loads

\* C23: outside registration the core only reads the identity store: a
\* step of SignInUser, RefreshAccessToken, DeserializeUser or GetMe,
\* successful or not, leaves the accounts and all their fields as they were.
C23_CoreOnlyReads == [][CoreStep => users' = users]_vars

\* with an account in the store, a login and a refresh have succeeded and
\* GET /users/me has answered 200
C23_Witness ==
    /\ Len(users) > 0
    /\ \E p \in SignInDone : ctxs[p].res.status = StatusOK
    /\ \E p \in RefreshDone : ctxs[p].res.status = StatusOK
    /\ \E p \in ReqProcs :
          /\ ctxs[p].route = "GetMe" /\ ctxs[p].pc = "done"
          /\ ctxs[p].res.status = StatusOK

----------------------------------------------------------------------------
(* Properties of the cookies *)

\* the cookie of this name in res
CookieOf(res, name) ==
    res.cookies[CHOOSE i \in 1..Len(res.cookies) : res.cookies[i].name = name]

\* the lifetime of a token in seconds: expiry minus time of issue
TokenTTLSeconds(token) ==
    (TokenExpiresAt(token) - TokenIssuedAt(token)) * ClockUnitSeconds

\* the cookie of this name in res carries a token, has path "/", is
\* httpOnly and lives as many seconds as its token
TokenCookieOk(res, name) ==
    /\ \E i \in 1..Len(res.cookies) : res.cookies[i].name = name
    /\ WellFormedToken(CookieOf(res, name).value)
    /\ CookieOf(res, name).path = "/"
    /\ CookieOf(res, name).httpOnly
    /\ CookieOf(res, name).maxAge = TokenTTLSeconds(CookieOf(res, name).value)

\* C24: a successful login sets the access_token and the refresh_token
\* cookie with path "/", httpOnly = true and a maxAge equal to the TTL of
\* the token it carries, in seconds.
C24_CookieAttributes ==
    \A p \in SignInDone :
        ctxs[p].res.status = StatusOK
            => /\ TokenCookieOk(ctxs[p].res, "access_token")
               /\ TokenCookieOk(ctxs[p].res, "refresh_token")

\* a login has succeeded whose tokens were created at different times:
\* its access_token cookie lives 900 seconds and its refresh_token cookie
\* 3600
C24_Witness ==
    \E p \in SignInDone :
        /\ ctxs[p].res.status = StatusOK
        /\ CookieOf(ctxs[p].res, "access_token").maxAge = 900
        /\ CookieOf(ctxs[p].res, "refresh_token").maxAge = 3600
        /\ CookieOf(ctxs[p].res, "access_token").value
              = ctxs[p].res.access_token
        /\ TokenIssuedAt(CookieOf(ctxs[p].res, "refresh_token").value)
              > TokenIssuedAt(ctxs[p].res.access_token)

----------------------------------------------------------------------------
(* Properties of the state requests share *)

\* C25: concurrent requests share no mutable state: no call that
\* SignInUser, RefreshAccessToken or DeserializeUser makes writes or reads
\* process-wide state that another request, executing at the same time,
\* writes or reads.
C25_NoSharedMutableState ==
    \A p \in ReqProcs : loads[p].sharedWith = {}

----------------------------------------------------------------------------
(* Properties of one run of the middleware *)

\* how often the middleware made this call
Calls(r, call) == Cardinality({i \in 1..Len(r.trace) : r.trace[i] = call})

\* the calls that end a run: the request is rejected or handed on
Terminals == {"AbortWithStatusJSON", "Next"}

\* C26: each request handled by DeserializeUser reaches exactly one
\* terminal state, Authenticated or Rejected, with no retry: it calls
\* ValidateToken at most once and FindUserById at most once, and
\* FindUserById only after ValidateToken has succeeded.
C26_OneTerminalStateNoRetry ==
    \A p \in ReqProcs :
        ctxs[p].route \in MwRoutes =>
            /\ Calls(ctxs[p].mw, "ValidateToken") <= 1
            /\ Calls(ctxs[p].mw, "FindUserById") <= 1
            /\ \A i \in 1..Len(ctxs[p].mw.trace) :
                  ctxs[p].mw.trace[i] = "FindUserById" =>
                      /\ \E j \in 1..(i - 1) :
                            ctxs[p].mw.trace[j] = "ValidateToken"
                      /\ ctxs[p].mw.validateErr = ""
            /\ p \in MwReturned =>
                  /\ ctxs[p].mw.outcome \in {"Authenticated", "Rejected"}
                  /\ Calls(ctxs[p].mw, "AbortWithStatusJSON")
                        + Calls(ctxs[p].mw, "Next") = 1
                  /\ ctxs[p].mw.trace[Len(ctxs[p].mw.trace)] \in Terminals

----------------------------------------------------------------------------
(* Provenance of the access tokens *)

\* token was minted by the SignInUser request c: the password of the
\* request verifies against the stored hash of the account FindUserByEmail
\* read, whose id is the subject of the token
MintedByLogin(token, c) ==
    /\ c.route = "SignInUser"
    /\ c.pc = "done"
    /\ token = c.res.access_token
    /\ c.lookedUp
    /\ c.user.id = ObjectIDFromHex(TokenSubject(token))
    /\ VerifyPassword(c.user.password, c.req.password) = ""

\* token was minted by the RefreshAccessToken request c: its
\* refresh_token cookie passed ValidateToken under the refresh public key
\* when the request read the clock, and its subject, the subject of the
\* token, was the id of an account when the request read the store
MintedByRefresh(token, c) ==
    /\ c.route = "RefreshAccessToken"
    /\ c.pc = "done"
    /\ token = c.res.access_token
    /\ c.req.cookie.present
    /\ c.validated
    /\ LET v == ValidateToken(c.req.cookie.value, RefreshTokenPublicKey,
                              c.validatedAt)
       IN  /\ v.err = ""
           /\ v.sub = TokenSubject(token)
    /\ c.lookedUp /\ c.stored

\* C27: every access token that has been issued was minted by a
\* SignInUser request in which VerifyPassword succeeded against the stored
\* hash of the account whose id is the token's subject, or by a
\* RefreshAccessToken request whose refresh_token cookie passed
\* ValidateToken under the refresh public key and whose subject was in
\* the store at that moment.
C27_AccessTokenProvenance ==
    [][\A t \in issued' \ issued :
          IsAccessToken(t) =>
              \E p \in ReqProcs :
                  /\ ctxs[p].pc # "done"
                  /\ \/ MintedByLogin(t, ctxs'[p])
                     \/ MintedByRefresh(t, ctxs'[p])]_vars

\* a refresh has minted an access token that no login had issued
C27_Witness ==
    \E p \in RefreshDone :
        /\ ctxs[p].res.status = StatusOK
        /\ ctxs[p].res.access_token \in issued
        /\ IsAccessToken(ctxs[p].res.access_token)
        /\ TokenIssuedAt(ctxs[p].res.access_token)
              # TokenIssuedAt(ctxs[p].req.cookie.value)
        /\ MintedByRefresh(ctxs[p].res.access_token, ctxs[p])

----------------------------------------------------------------------------
(* Properties of a failed registration *)

\* authService.SignUpUser was called for request p and returned an error:
\* the controller answered with SignUpError
ServiceFailed(p) ==
    /\ Finished(p)
    /\ reg[p].serviceCalled
    /\ reg[p].writes[Len(reg[p].writes)].status
          \in {StatusConflict, StatusBadGateway}

\* C28: whenever authService.SignUpUser returns an error (duplicate key,
\* failure to create the index, failure to read the document back), the
\* persisted accounts are those of before the call: the call has left no
\* document of its own in the store.
C28_FailedSignUpLeavesStore ==
    \A p \in RegProcs : ServiceFailed(p) => ~InStore(p)

----------------------------------------------------------------------------
(* Properties of the failed login and refresh *)

\* C29: whenever SignInUser or RefreshAccessToken answers with another
\* status than 200 it has set no cookie and returned no token; a login
\* whose access token was created and whose refresh token was not
\* delivers neither.
C29_FailureDeliversNothing ==
    \A p \in SignInDone \cup RefreshDone :
        ctxs[p].res.status # StatusOK
            => /\ ctxs[p].res.cookies = << >>
               /\ ctxs[p].res.access_token = ""
               /\ TokensOf(ctxs[p].res) = {}

\* a login with the password of its account has failed at the creation
\* of the refresh token, after the access token had been created
C29_Witness ==
    \E p \in SignInDone :
        /\ ctxs[p].res.status = StatusBadRequest
        /\ ctxs[p].accessToken # ""
        /\ WellFormedToken(ctxs[p].accessToken)
        /\ ctxs[p].res.message
              = CreateToken(ctxs[p].config.RefreshTokenExpiredIn, 1,
                            ctxs[p].config.RefreshTokenPrivateKey, now).err

----------------------------------------------------------------------------
(* Properties of the responses *)

\* C30: every invocation of SignUpUser, SignInUser and RefreshAccessToken
\* writes exactly one response, one status code and one JSON body, on
\* every path through the handler.
C30_ExactlyOneResponse ==
    /\ \A p \in RegProcs : Finished(p) => Len(reg[p].writes) = 1
    /\ \A p \in ReqProcs :
          ctxs[p].route \in {"SignInUser", "RefreshAccessToken"} =>
              /\ ctxs[p].pc = "done"
                    => ctxs[p].res.status
                          \in {StatusOK, StatusBadRequest, StatusForbidden}
              /\ ctxs[p].pc # "done" => ctxs[p].res = NoResponse

----------------------------------------------------------------------------
(* Properties of the response bodies *)

\* the JSON bodies written so far: those of SignUpUser, of SignInUser, of
\* RefreshAccessToken and of GetMe
Bodies ==
    UNION {{reg[p].writes[i] : i \in 1..Len(reg[p].writes)} : p \in RegProcs}
    \cup {[status |-> ctxs[p].res.status, message |-> ctxs[p].res.message,
           access_token |-> ctxs[p].res.access_token]
             : p \in SignInDone \cup RefreshDone}
    \cup {ctxs[p].res : p \in {q \in ReqProcs : /\ ctxs[q].route = "GetMe"
                                                /\ ctxs[q].pc = "done"
                                                /\ ctxs[q].mw.nextRan}}

\* the strings a body carries beside its user data
BodyStrings(b) ==
    (IF "message" \in DOMAIN b THEN {b.message} ELSE {})
    \cup (IF "access_token" \in DOMAIN b THEN {b.access_token} ELSE {})
    \cup (IF "user" \in DOMAIN b THEN {b.user.email, b.user.role} ELSE {})

\* the passwords clients have submitted, as they were sent
PlaintextPasswords ==
    ({reg[p].input.password : p \in RegProcs}
     \cup {reg[p].input.confirm : p \in RegProcs}
     \cup {ctxs[p].req.password : p \in ReqProcs})
        \ {""}

\* the body carries a password field of an account, or a submitted
\* password inside one of its strings
LeaksPassword(b) ==
    \/ /\ "user" \in DOMAIN b
       /\ DOMAIN b.user \cap {"password", "confirm_password"} # {}
    \/ DOMAIN b \cap {"password", "confirm_password"} # {}
    \/ \E str \in BodyStrings(b), pw \in PlaintextPasswords :
           Contains(str, pw)

\* C31: no response body of SignUpUser, SignInUser, RefreshAccessToken or
\* GetMe contains the stored password hash or the plaintext password of
\* an account: user data is returned through FilteredResponse only,
\* which carries neither.
C31_NoPasswordInResponses ==
    \A b \in Bodies : ~LeaksPassword(b)

\* an account with a bcrypt hash in the store has been answered 201 with
\* its user data, GET /users/me has answered 200 with it, and a login
\* with its password has been answered 200
C31_Witness ==
    \E q \in RegProcs :
        /\ Registered(q) /\ InStore(q)
        /\ StoredBy(q).password.alg = "bcrypt"
        /\ reg[q].writes[Len(reg[q].writes)].user.id = reg[q].insertedID
        /\ \E p \in ReqProcs :
              /\ ctxs[p].route = "GetMe" /\ ctxs[p].pc = "done"
              /\ ctxs[p].res.status = StatusOK
              /\ ctxs[p].res.user.id = reg[q].insertedID
        /\ \E p \in SignInDone :
              /\ ctxs[p].res.status = StatusOK
              /\ ctxs[p].req.password = reg[q].input.password

====
